---- MODULE Spec2Model ----
(***************************************************************************)
(* Offer service (src/server.js, the service defined at lines 553-1065):   *)
(* offer intake with the 24 hour dedupe, the admin status transition, the  *)
(* discount provisioner, the manual create-code retry and the draft order  *)
(* bundler.                                                                *)
(*                                                                         *)
(* One HTTP request is one entry of req.  A handler is cut into steps at   *)
(* the points where it hands control back to the event loop (a store call, *)
(* a platform call, a mail delivery it awaits); a step is atomic, as the   *)
(* code between two such points is on the single JavaScript thread.        *)
(* Strings the code inspects (email, variant id) are sequences of          *)
(* one-character strings.  The clock counts units of 12 hours.             *)
(***************************************************************************)
EXTENDS Integers, Sequences, FiniteSets, TLC

VARIABLES
    offers,   \* the offers table, in id order: offers[i].id = i
    req,      \* the HTTP requests: input, position and locals of each handler
    now,      \* the wall clock (store-side and process-side)
    rules,    \* price rules created on the commerce platform, in id order
    codes,    \* discount codes created on the commerce platform
    drafts,   \* draft orders created on the commerce platform, in id order
    cfg       \* process.env, read once at startup

vars == <<offers, req, now, rules, codes, drafts, cfg>>

----------------------------------------------------------------------------
(* Bounds of the model *)

MaxReqs == 3
MaxTime == 3
\* the requests of the specifications that range over the request bodies
MaxSubmits == 2
\* the requests of the specification that ranges over the stores
MaxDrafts == 2
\* the requests of the specification that ranges over the admin keys
MaxAdmins == 2
\* the requests of the specification in which every call is answered
MaxAsked == 1

Reqs == 1..MaxReqs

----------------------------------------------------------------------------
(* Program constants *)

\* datetime('now','-1 day'): one day, in clock units of 12 hours
Day == 2
\* Number(process.env.DISCOUNT_TTL_DAYS || 7)
DISCOUNT_TTL_DAYS == 7
\* a column that is NULL (ids start at 1, times at 0)
NullId == 0
NullTime == -1
\* a NULL or '' text column
NoText == <<>>

STATUSES == {"open", "accepted", "declined", "expired"}

----------------------------------------------------------------------------
(* String helpers *)

IsDigit(c) == c \in {"0", "1", "2", "3", "4", "5", "6", "7", "8", "9"}

DigitVal(c) ==
    CASE c = "0" -> 0 [] c = "1" -> 1 [] c = "2" -> 2 [] c = "3" -> 3
      [] c = "4" -> 4 [] c = "5" -> 5 [] c = "6" -> 6 [] c = "7" -> 7
      [] c = "8" -> 8 [] c = "9" -> 9

\* String.prototype.toLowerCase over the model's alphabet (capitals A, B, J, P)
LowerChar(c) ==
    CASE c = "A" -> "a" [] c = "B" -> "b" [] c = "J" -> "j" [] c = "P" -> "p"
      [] OTHER -> c

toLowerCase(s) == [i \in 1..Len(s) |-> LowerChar(s[i])]

RECURSIVE trimStart(_)
trimStart(s) == IF s # <<>> /\ Head(s) = " " THEN trimStart(Tail(s)) ELSE s

RECURSIVE trimEnd(_)
trimEnd(s) ==
    IF s # <<>> /\ s[Len(s)] = " " THEN trimEnd(SubSeq(s, 1, Len(s) - 1)) ELSE s

\* String.prototype.trim
trim(s) == trimEnd(trimStart(s))

\* [^\s@]
PlainChar(c) == c # " " /\ c # "@"

AllPlain(s, from, to) == \A k \in from..to : PlainChar(s[k])

\* /^[^\s@]+@[^\s@]+\.[^\s@]{2,}$/.test(s)
EmailOk(s) ==
    \E i \in 1..Len(s), j \in 1..Len(s) :
        /\ s[i] = "@" /\ s[j] = "."
        /\ 1 < i /\ i + 1 < j /\ j + 2 <= Len(s)
        /\ AllPlain(s, 1, i - 1)
        /\ AllPlain(s, i + 1, j - 1)
        /\ AllPlain(s, j + 1, Len(s))

\* the value of the digits s[from..Len(s)]
RECURSIVE DigitsValue(_, _, _)
DigitsValue(s, from, acc) ==
    IF from > Len(s) THEN acc
    ELSE DigitsValue(s, from + 1, acc * 10 + DigitVal(s[from]))

\* where the longest run of digits ending the string starts (Len(s)+1: none)
RECURSIVE DigitsFrom(_, _)
DigitsFrom(s, k) ==
    IF k >= 1 /\ IsDigit(s[k]) THEN DigitsFrom(s, k - 1) ELSE k + 1

\* getNumericId: Number of the /\d+$/ match, NaN (here -1) without a match
NaN == -1
getNumericId(maybeId) ==
    LET from == DigitsFrom(maybeId, Len(maybeId))
    IN  IF from > Len(maybeId) THEN NaN ELSE DigitsValue(maybeId, from, 0)

\* !getNumericId(x): NaN and 0 are both falsy
BadNumericId(n) == n = NaN \/ n = 0

----------------------------------------------------------------------------
(* Offer intake: POST /api/offer *)

\* products parseFloat(x) * 100 that IEEE-754 doubles put just below the half
\* although x has a 5 in the third decimal (x in thousandths)
FloatBelowHalf == {1005}

\* a request's decimal amount: its value in thousandths, or not a number
Amount(milli) == [nan |-> FALSE, milli |-> milli]
NotANumber == [nan |-> TRUE, milli |-> 0]

\* the double Infinity, above every amount of the model
Infinity == 2147483647

\* what parseFloat reads from "Infinity" or "1e999"
InfiniteAmount == [nan |-> FALSE, milli |-> Infinity]

\* Math.max(0, Math.round(parseFloat(o.offer || 0) * 100)): NaN stays NaN,
\* which the handler's !offer_cents treats like 0; Infinity stays Infinity
offerCents(offer) ==
    IF offer.nan THEN 0
    ELSE IF offer.milli = Infinity THEN Infinity
    ELSE IF offer.milli <= 0 THEN 0
    ELSE LET q == offer.milli \div 10
             rem == offer.milli % 10
         IN  IF rem > 5 \/ (rem = 5 /\ offer.milli \notin FloatBelowHalf)
             THEN q + 1 ELSE q

\* Math.max(0, parseInt(o.price_cents || 0, 10)) of an integer
priceCents(p) == IF p < 0 THEN 0 ELSE p

\* the row built from the request body
BuildRow(in) ==
    [ shop_domain |-> in.shop_domain,
      product_id  |-> in.product_id,
      variant_id  |-> in.variant_id,
      price_cents |-> priceCents(in.price_cents),
      offer_cents |-> offerCents(in.offer),
      currency    |-> IF in.currency = "" THEN "GBP" ELSE in.currency,
      email       |-> trim(in.email),
      email_norm  |-> toLowerCase(trim(in.email)) ]

\* mutant: the amount is checked before the email and the identifiers
ValidationErrorAmountFirst(in) ==
    IF cfg.allow # {} /\ in.origin \notin cfg.allow THEN "Forbidden origin"
    ELSE IF offerCents(in.offer) = 0 THEN "Offer required"
    ELSE IF ~EmailOk(trim(in.email)) THEN "Invalid email"
    ELSE IF in.product_id = "" \/ in.variant_id = <<>> THEN "Missing product/variant"
    ELSE ""

\* the checks before the dedupe query, in the handler's order: the error, or ""
ValidationError(in) ==
    IF cfg.allow # {} /\ in.origin \notin cfg.allow THEN "Forbidden origin"
    ELSE IF ~EmailOk(trim(in.email)) THEN "Invalid email"
    ELSE IF in.product_id = "" \/ in.variant_id = <<>> THEN "Missing product/variant"
    ELSE IF offerCents(in.offer) = 0 THEN "Offer required"
    ELSE ""

ErrorStatus(e) == IF e = "Forbidden origin" THEN 403 ELSE 400

\* mutant: the query matches the email column, not email_norm
DuplicateRowsRawEmail(store, email_norm, variant_id, t) ==
    { i \in 1..Len(store) :
        /\ store[i].email = email_norm
        /\ store[i].variant_id = variant_id
        /\ store[i].status = "open"
        /\ store[i].created_at >= t - Day }

\* mutant: the query compares with datetime('now'), without the '-1 day'
DuplicateRowsNoWindow(store, email_norm, variant_id, t) ==
    { i \in 1..Len(store) :
        /\ store[i].email_norm = email_norm
        /\ store[i].variant_id = variant_id
        /\ store[i].status = "open"
        /\ store[i].created_at >= t }

\* mutant: the query lacks status='open'
DuplicateRowsAnyStatus(store, email_norm, variant_id, t) ==
    { i \in 1..Len(store) :
        /\ store[i].email_norm = email_norm
        /\ store[i].variant_id = variant_id
        /\ store[i].created_at >= t - Day }

\* WHERE email_norm=? AND variant_id=? AND status='open'
\*   AND datetime(created_at) >= datetime('now','-1 day')
DuplicateRows(store, email_norm, variant_id, t) ==
    { i \in 1..Len(store) :
        /\ store[i].email_norm = email_norm
        /\ store[i].variant_id = variant_id
        /\ store[i].status = "open"
        /\ store[i].created_at >= t - Day }

\* the row as the INSERT stores it: the columns not named take their defaults
InsertedRow(row, id, t) ==
    [ id |-> id, created_at |-> t,
      shop_domain |-> row.shop_domain, product_id |-> row.product_id,
      variant_id |-> row.variant_id,
      currency |-> row.currency,
      price_cents |-> row.price_cents, offer_cents |-> row.offer_cents,
      email |-> row.email, email_norm |-> row.email_norm,
      status |-> "open",
      discount_code |-> NoText, price_rule_id |-> NullId,
      discount_expires_at |-> NullTime,
      draft_order_id |-> NullId, drafted_at |-> NullTime ]

Idle == [kind |-> "none", pc |-> "idle"]

Response(status, error, id) == [status |-> status, error |-> error, id |-> id]

\* slots are taken in order
CanStart(r) ==
    /\ req[r].kind = "none"
    /\ \A q \in Reqs : q < r => req[q].kind # "none"

\* process.env.OFFER_TO_EMAIL, when set
OpsMailbox == <<"o", "p", "s">>

\* the mails the insert callback hands to the mailer
ReceivedMails(row) ==
    IF cfg.mailer /\ cfg.offer_to_email
    THEN << [kind |-> "internal", to |-> OpsMailbox, code |-> NoText],
            [kind |-> "received", to |-> row.email, code |-> NoText] >>
    ELSE << >>

\* the promises of the sendMail calls, none settled
Pending(mails) == [k \in 1..Len(mails) |-> "pending"]

\* the handler up to and including the dedupe query and its callback
SubmitOffer(r, in, dbErr) ==
    /\ CanStart(r)
    /\ LET e == ValidationError(in)
           row == BuildRow(in)
           base == [kind |-> "offer", in |-> in, row |-> row, mails |-> << >>,
                    delivery |-> << >>, raced |-> FALSE]
       IN  req' = [req EXCEPT ![r] =
             IF e # ""
             THEN base @@ [pc |-> "done", resp |-> Response(ErrorStatus(e), e, NullId)]
             ELSE IF dbErr
             THEN base @@ [pc |-> "done", resp |-> Response(500, "DB error", NullId)]
             ELSE IF DuplicateRows(offers, row.email_norm, row.variant_id, now) # {}
             THEN base @@ [pc |-> "done",
                           resp |-> Response(429, "You already made an offer", NullId)]
             ELSE base @@ [pc |-> "insert", resp |-> Response(0, "", NullId)]]
    /\ UNCHANGED <<offers, now, rules, codes, drafts, cfg>>

\* mutant: the mails go out although the INSERT failed
InsertOfferMailsOnError(r, insertErr) ==
    /\ req[r].kind = "offer" /\ req[r].pc = "insert"
    /\ IF insertErr
       THEN /\ req' = [req EXCEPT ![r].pc = "done",
                                  ![r].resp = Response(500, "Insert failed", NullId),
                                  ![r].mails = ReceivedMails(req[r].row),
                                  ![r].delivery = Pending(ReceivedMails(req[r].row))]
            /\ UNCHANGED offers
       ELSE LET id == Len(offers) + 1
                row == req[r].row
            IN  /\ offers' = Append(offers, InsertedRow(row, id, now))
                /\ req' = [q \in Reqs |->
                     IF q = r
                     THEN [req[r] EXCEPT !.pc = "done",
                                         !.resp = Response(200, "", id),
                                         !.mails = ReceivedMails(row),
                                         !.delivery = Pending(ReceivedMails(row))]
                     ELSE IF /\ req[q].kind = "offer" /\ req[q].pc = "insert"
                             /\ req[q].row.email_norm = row.email_norm
                             /\ req[q].row.variant_id = row.variant_id
                     THEN [req[q] EXCEPT !.raced = TRUE]
                     ELSE req[q]]
    /\ UNCHANGED <<now, rules, codes, drafts, cfg>>

\* the INSERT and its callback
InsertOffer(r, insertErr) ==
    /\ req[r].kind = "offer" /\ req[r].pc = "insert"
    /\ IF insertErr
       THEN /\ req' = [req EXCEPT ![r].pc = "done",
                                  ![r].resp = Response(500, "Insert failed", NullId)]
            /\ UNCHANGED offers
       ELSE LET id == Len(offers) + 1
                row == req[r].row
            IN  /\ offers' = Append(offers, InsertedRow(row, id, now))
                /\ req' = [q \in Reqs |->
                     IF q = r
                     THEN [req[r] EXCEPT !.pc = "done",
                                         !.resp = Response(200, "", id),
                                         !.mails = ReceivedMails(row),
                                         !.delivery = Pending(ReceivedMails(row))]
                     ELSE IF /\ req[q].kind = "offer" /\ req[q].pc = "insert"
                             /\ req[q].row.email_norm = row.email_norm
                             /\ req[q].row.variant_id = row.variant_id
                     THEN [req[q] EXCEPT !.raced = TRUE]
                     ELSE req[q]]
    /\ UNCHANGED <<now, rules, codes, drafts, cfg>>

\* mutant: a failed delivery is reported to the submitter
SettledReportsFailure(q, k, outcome) ==
    IF outcome = "failed"
    THEN [q EXCEPT !.delivery[k] = outcome,
                   !.resp = Response(500, "Mail failed", NullId)]
    ELSE [q EXCEPT !.delivery[k] = outcome]

\* the request once the promise of its k-th mail settled: a rejection goes to
\* .catch(()=>{})
Settled(q, k, outcome) == [q EXCEPT !.delivery[k] = outcome]

\* a mail of the insert callback is delivered, or its delivery fails
SettleMail(r, k, delivered) ==
    /\ req[r].kind = "offer" /\ req[r].pc = "done"
    /\ k \in 1..Len(req[r].delivery) /\ req[r].delivery[k] = "pending"
    /\ req' = [req EXCEPT ![r] =
           Settled(req[r], k, IF delivered THEN "delivered" ELSE "failed")]
    /\ UNCHANGED <<offers, now, rules, codes, drafts, cfg>>

----------------------------------------------------------------------------
(* Discount provisioner: createDiscountForOffer *)

\* the six characters Math.random() contributes to a code
Suffixes == {"X", "Y"}

\* `OFFER-${row.id}-${suffix}`
MakeCode(id, suffix) == <<"OFFER", id, suffix>>

\* codeInfo while it is null
NoInfo == [code |-> NoText, priceRuleId |-> NullId, endsAt |-> NullTime]

\* mutant: the provisioner does not compare the two prices
ProvisionErrorNoCompare(row) ==
    IF row.price_cents = 0 \/ row.offer_cents = 0 THEN "Missing price/offer"
    ELSE IF BadNumericId(getNumericId(row.variant_id)) THEN "Bad variant_id"
    ELSE ""

\* the throws before the first platform call: the message, or ""
ProvisionError(row) ==
    IF row.price_cents = 0 \/ row.offer_cents = 0 THEN "Missing price/offer"
    ELSE IF row.price_cents - row.offer_cents <= 0 THEN "Offer >= price; no discount needed"
    ELSE IF BadNumericId(getNumericId(row.variant_id)) THEN "Bad variant_id"
    ELSE ""

\* Math.max(0, row.price_cents - row.offer_cents)
diffCents(row) ==
    IF row.price_cents - row.offer_cents < 0 THEN 0
    ELSE row.price_cents - row.offer_cents

\* (cents / 100).toFixed(2) of a non-negative integer: the digits before and
\* the two digits after the point
toFixed2(cents) == [units |-> cents \div 100, hundredths |-> cents % 100]

\* `-${(diffCents / 100).toFixed(2)}`
valueFixed(d) == [sign |-> "-", amount |-> toFixed2(d)]

\* mutant: the rule takes the listed price off
PriceRuleListedValue(id, row, endsAt, t) ==
    [ id |-> id, offer |-> row.id,
      target_type |-> "line_item", target_selection |-> "entitled",
      allocation_method |-> "each", customer_selection |-> "all",
      value_type |-> "fixed_amount", value |-> valueFixed(row.price_cents),
      usage_limit |-> 1, once_per_customer |-> TRUE,
      entitled_variant_ids |-> {getNumericId(row.variant_id)},
      starts_at |-> t, ends_at |-> endsAt ]

\* prBody.price_rule, with the id the platform gives it
PriceRule(id, row, endsAt, t) ==
    [ id |-> id, offer |-> row.id,
      target_type |-> "line_item", target_selection |-> "entitled",
      allocation_method |-> "each", customer_selection |-> "all",
      value_type |-> "fixed_amount", value |-> valueFixed(diffCents(row)),
      usage_limit |-> 1, once_per_customer |-> TRUE,
      entitled_variant_ids |-> {getNumericId(row.variant_id)},
      starts_at |-> t, ends_at |-> endsAt ]

\* mutant: the caller does not look at row.discount_code
NeedsCodeAlways(row) == TRUE

\* if (!row.discount_code)
NeedsCode(row) == row.discount_code = NoText

Redirect == Response(302, "", NullId)

ContactUs == <<"(contact us)">>

\* the acceptance mail: codeInfo?.code || "(contact us)"
AcceptMail(row, info) ==
    [ kind |-> "accepted", to |-> row.email,
      code |-> IF info.code # NoText THEN info.code ELSE ContactUs ]

\* mutant: the decline mail quotes the offer's code
DeclineMailWithCode(row) ==
    [kind |-> "declined", to |-> row.email, code |-> row.discount_code]

DeclineMail(row) == [kind |-> "declined", to |-> row.email, code |-> NoText]

\* if (mailer && row.email)
CanMail(row) == cfg.mailer /\ row.email # <<>>

\* mutant: a provisioning failure is answered with a server error
AfterProvisionFailing(q, info) ==
    IF info = NoInfo
    THEN [q EXCEPT !.pc = "done", !.resp = Response(500, "Discount failed", NullId)]
    ELSE IF q.kind = "status" /\ CanMail(q.row)
    THEN [q EXCEPT !.codeInfo = info, !.pc = "mail",
                   !.mails = Append(@, AcceptMail(q.row, info))]
    ELSE [q EXCEPT !.codeInfo = info, !.pc = "done", !.resp = Redirect]

\* the handler after createDiscountForOffer returned (info) or threw (NoInfo)
AfterProvision(q, info) ==
    IF q.kind = "status" /\ CanMail(q.row)
    THEN [q EXCEPT !.codeInfo = info, !.pc = "mail",
                   !.mails = Append(@, AcceptMail(q.row, info))]
    ELSE [q EXCEPT !.codeInfo = info, !.pc = "done", !.resp = Redirect]

\* createDiscountForOffer(row) up to its first await; shopifyFetch throws
\* before any request when SHOP or ADMIN_TOKEN is not configured
BeginProvision(q, suffix) ==
    IF ProvisionError(q.row) # "" \/ ~cfg.shopify THEN AfterProvision(q, NoInfo)
    ELSE [q EXCEPT !.pc = "rule", !.calls = @ + 1,
                   !.code = MakeCode(q.row.id, suffix),
                   !.endsAt = now + DISCOUNT_TTL_DAYS * Day]

\* POST /price_rules.json answered
RuleDone(r, outcome) ==
    /\ req[r].pc = "rule"
    /\ IF outcome = "ok"
       THEN /\ rules' = Append(rules,
                   PriceRule(Len(rules) + 1, req[r].row, req[r].endsAt, req[r].startsAt))
            /\ req' = [req EXCEPT ![r].pc = "dcode", ![r].calls = @ + 1,
                                  ![r].priceRuleId = Len(rules) + 1]
       ELSE /\ req' = [req EXCEPT ![r] = AfterProvision(req[r], NoInfo)]
            /\ UNCHANGED rules
    /\ UNCHANGED <<offers, now, codes, drafts, cfg>>

\* POST /price_rules/:id/discount_codes.json answered
CodeDone(r, ok) ==
    /\ req[r].pc = "dcode"
    /\ IF ok
       THEN /\ codes' = codes \cup {[price_rule_id |-> req[r].priceRuleId,
                                     code |-> req[r].code]}
            /\ req' = [req EXCEPT ![r].pc = "store"]
       ELSE /\ req' = [req EXCEPT ![r] = AfterProvision(req[r], NoInfo)]
            /\ UNCHANGED codes
    /\ UNCHANGED <<offers, now, rules, drafts, cfg>>

\* mutant: the UPDATE has no WHERE id=?
DiscountWriteAllRows(store, id, code, priceRuleId, endsAt) ==
    [i \in 1..Len(store) |->
        [store[i] EXCEPT !.discount_code = code, !.price_rule_id = priceRuleId,
                         !.discount_expires_at = endsAt]]

\* UPDATE offers SET discount_code=?, price_rule_id=?, discount_expires_at=?
\* WHERE id=?
DiscountWrite(store, id, code, priceRuleId, endsAt) ==
    [store EXCEPT ![id].discount_code = code,
                  ![id].price_rule_id = priceRuleId,
                  ![id].discount_expires_at = endsAt]

\* mutant: a failed UPDATE has written the code and not the rest
StoreDoneHalfWritten(r, err) ==
    /\ req[r].pc = "store"
    /\ IF err
       THEN /\ req' = [req EXCEPT ![r] = AfterProvision(req[r], NoInfo)]
            /\ offers' = [offers EXCEPT ![req[r].row.id].discount_code = req[r].code]
       ELSE /\ offers' = DiscountWrite(offers, req[r].row.id, req[r].code,
                                       req[r].priceRuleId, req[r].endsAt)
            /\ req' = [req EXCEPT ![r] = AfterProvision(req[r],
                   [code |-> req[r].code, priceRuleId |-> req[r].priceRuleId,
                    endsAt |-> req[r].endsAt])]
    /\ UNCHANGED <<now, rules, codes, drafts, cfg>>

\* the discount UPDATE answered
StoreDone(r, err) ==
    /\ req[r].pc = "store"
    /\ IF err
       THEN /\ req' = [req EXCEPT ![r] = AfterProvision(req[r], NoInfo)]
            /\ UNCHANGED offers
       ELSE /\ offers' = DiscountWrite(offers, req[r].row.id, req[r].code,
                                       req[r].priceRuleId, req[r].endsAt)
            /\ req' = [req EXCEPT ![r] = AfterProvision(req[r],
                   [code |-> req[r].code, priceRuleId |-> req[r].priceRuleId,
                    endsAt |-> req[r].endsAt])]
    /\ UNCHANGED <<now, rules, codes, drafts, cfg>>

----------------------------------------------------------------------------
(* Admin requests *)

\* the handler's row before the SELECT answered, and when it found none
NoRow ==
    [ id |-> NullId, created_at |-> NullTime,
      shop_domain |-> NoText, product_id |-> "", variant_id |-> NoText,
      currency |-> "", price_cents |-> 0, offer_cents |-> 0,
      email |-> NoText, email_norm |-> NoText,
      status |-> "",
      discount_code |-> NoText, price_rule_id |-> NullId,
      discount_expires_at |-> NullTime,
      draft_order_id |-> NullId, drafted_at |-> NullTime ]

\* what an admin handler holds when it starts
Admin(kind, key, id, val) ==
    [ kind |-> kind, key |-> key, id |-> id, val |-> val, row |-> NoRow,
      pc |-> "done", resp |-> Response(0, "", NullId),
      code |-> NoText, endsAt |-> NullTime, startsAt |-> NullTime,
      priceRuleId |-> NullId,
      codeInfo |-> NoInfo, mails |-> << >>, calls |-> 0 ]

\* LIMIT 500 of the admin table
ListLimit == 500

\* the rows of SELECT * FROM offers ORDER BY created_at DESC LIMIT 500: the
\* newest rows of the store, which keeps them in the order of their creation
ListedRows(store) ==
    {store[i] : i \in {j \in 1..Len(store) : j > Len(store) - ListLimit}}

\* GET /admin/offers, the query's callback included
StartList(r, key, dbErr) ==
    /\ CanStart(r)
    /\ LET q == Admin("list", key, NullId, "") @@ [page |-> {}]
       IN  req' = [req EXCEPT ![r] =
             IF key # cfg.admin_key THEN [q EXCEPT !.resp = Response(403, "Forbidden", NullId)]
             ELSE IF dbErr THEN [q EXCEPT !.resp = Response(500, "DB error", NullId)]
             ELSE [q EXCEPT !.resp = Response(200, "", NullId),
                            !.page = ListedRows(offers)]]
    /\ UNCHANGED <<offers, now, rules, codes, drafts, cfg>>

\* String(req.query.value || "open")
StatusValue(value) == IF value = "" THEN "open" ELSE value

\* GET /admin/offers/:id/status up to and including the SELECT's callback
StartStatus(r, key, id, value, dbErr) ==
    /\ CanStart(r)
    /\ LET q == Admin("status", key, id, StatusValue(value)) @@ [given |-> value]
       IN  req' = [req EXCEPT ![r] =
             IF key # cfg.admin_key THEN [q EXCEPT !.resp = Response(403, "Forbidden", NullId)]
             ELSE IF q.val \notin STATUSES THEN [q EXCEPT !.resp = Response(400, "Bad status", NullId)]
             ELSE IF dbErr \/ id \notin 1..Len(offers)
             THEN [q EXCEPT !.resp = Response(404, "Offer not found", NullId)]
             ELSE [q EXCEPT !.row = offers[id], !.pc = "update"]]
    /\ UNCHANGED <<offers, now, rules, codes, drafts, cfg>>

\* mutant: only an open offer changes status
StatusWriteFromOpen(store, id, val) ==
    IF store[id].status = "open" THEN [store EXCEPT ![id].status = val] ELSE store

\* mutant: a reopened offer loses its draft marker
StatusWriteReopenClears(store, id, val) ==
    IF val = "open"
    THEN [store EXCEPT ![id].status = val, ![id].draft_order_id = NullId,
                       ![id].drafted_at = NullTime]
    ELSE [store EXCEPT ![id].status = val]

\* UPDATE offers SET status=? WHERE id=?
StatusWrite(store, id, val) == [store EXCEPT ![id].status = val]

\* mutant: expired is notified like declined
AfterStatusWriteMailsExpired(q, suffix) ==
    IF q.val = "accepted"
    THEN IF NeedsCode(q.row)
         THEN BeginProvision([q EXCEPT !.startsAt = now], suffix)
         ELSE AfterProvision(q,
                [code |-> q.row.discount_code,
                 priceRuleId |-> q.row.price_rule_id,
                 endsAt |-> q.row.discount_expires_at])
    ELSE IF q.val \in {"declined", "expired"} /\ CanMail(q.row)
    THEN [q EXCEPT !.pc = "mail", !.mails = Append(@, DeclineMail(q.row))]
    ELSE [q EXCEPT !.pc = "done", !.resp = Redirect]

\* the UPDATE's callback up to its first await: the side effects of the value
AfterStatusWrite(q, suffix) ==
    IF q.val = "accepted"
    THEN IF NeedsCode(q.row)
         THEN BeginProvision([q EXCEPT !.startsAt = now], suffix)
         ELSE AfterProvision(q,
                [code |-> q.row.discount_code,
                 priceRuleId |-> q.row.price_rule_id,
                 endsAt |-> q.row.discount_expires_at])
    ELSE IF q.val = "declined" /\ CanMail(q.row)
    THEN [q EXCEPT !.pc = "mail", !.mails = Append(@, DeclineMail(q.row))]
    ELSE [q EXCEPT !.pc = "done", !.resp = Redirect]

\* mutant: the side effects follow a failed UPDATE too
UpdateStatusEffectsOnError(r, uerr, suffix) ==
    /\ req[r].kind = "status" /\ req[r].pc = "update"
    /\ IF uerr
       THEN /\ req' = [req EXCEPT ![r] = AfterStatusWrite(req[r], suffix)]
            /\ UNCHANGED offers
       ELSE /\ offers' = StatusWrite(offers, req[r].id, req[r].val)
            /\ req' = [req EXCEPT ![r] = AfterStatusWrite(req[r], suffix)]
    /\ UNCHANGED <<now, rules, codes, drafts, cfg>>

\* the status UPDATE and its callback up to the first await
UpdateStatus(r, uerr, suffix) ==
    /\ req[r].kind = "status" /\ req[r].pc = "update"
    /\ IF uerr
       THEN /\ req' = [req EXCEPT ![r].pc = "done",
                                  ![r].resp = Response(500, "DB error", NullId)]
            /\ UNCHANGED offers
       ELSE /\ offers' = StatusWrite(offers, req[r].id, req[r].val)
            /\ req' = [req EXCEPT ![r] = AfterStatusWrite(req[r], suffix)]
    /\ UNCHANGED <<now, rules, codes, drafts, cfg>>

\* mutant: the rejection of sendMail is not caught, and the handler ends
\* before its redirect
MailDoneUncaught(r, delivered) ==
    /\ req[r].pc = "mail"
    /\ req' = [req EXCEPT ![r] =
           IF delivered THEN [req[r] EXCEPT !.pc = "done", !.resp = Redirect]
           ELSE [req[r] EXCEPT !.pc = "done"]]
    /\ UNCHANGED <<offers, now, rules, codes, drafts, cfg>>

\* mailer.sendMail settled (delivered or failed: the failure is only logged)
MailDone(r, delivered) ==
    /\ req[r].pc = "mail"
    /\ req' = [req EXCEPT ![r].pc = "done", ![r].resp = Redirect]
    /\ UNCHANGED <<offers, now, rules, codes, drafts, cfg>>

\* mutant: a create-code request for no offer is answered like any other
StartCodeMissingRedirects(r, key, id, dbErr, suffix) ==
    /\ CanStart(r)
    /\ LET q == Admin("code", key, id, "")
       IN  req' = [req EXCEPT ![r] =
             IF key # cfg.admin_key THEN [q EXCEPT !.resp = Response(403, "Forbidden", NullId)]
             ELSE IF dbErr \/ id \notin 1..Len(offers)
             THEN [q EXCEPT !.resp = Redirect]
             ELSE IF NeedsCode(offers[id])
             THEN BeginProvision([q EXCEPT !.row = offers[id], !.startsAt = now], suffix)
             ELSE [q EXCEPT !.row = offers[id], !.resp = Redirect]]
    /\ UNCHANGED <<offers, now, rules, codes, drafts, cfg>>

\* GET /admin/offers/:id/create-code up to the first await
StartCode(r, key, id, dbErr, suffix) ==
    /\ CanStart(r)
    /\ LET q == Admin("code", key, id, "")
       IN  req' = [req EXCEPT ![r] =
             IF key # cfg.admin_key THEN [q EXCEPT !.resp = Response(403, "Forbidden", NullId)]
             ELSE IF dbErr \/ id \notin 1..Len(offers)
             THEN [q EXCEPT !.resp = Response(404, "Offer not found", NullId)]
             ELSE IF NeedsCode(offers[id])
             THEN BeginProvision([q EXCEPT !.row = offers[id], !.startsAt = now], suffix)
             ELSE [q EXCEPT !.row = offers[id], !.resp = Redirect]]
    /\ UNCHANGED <<offers, now, rules, codes, drafts, cfg>>

----------------------------------------------------------------------------
(* Draft order bundler: createDraftForEmailAndShop and its route *)

\* String.prototype.endsWith
endsWith(s, suffix) ==
    /\ Len(suffix) <= Len(s)
    /\ SubSeq(s, Len(s) - Len(suffix) + 1, Len(s)) = suffix

\* the first entry of MARKET_MAP for the lower-cased host, else ".jp" is
\* Japan, and ".co.uk", ".uk", ".com" and everything else fall back to GBP
resolveMarketForHost(host) ==
    LET h == toLowerCase(host)
        hits == SelectSeq(cfg.market_map, LAMBDA m : toLowerCase(m.host) = h)
    IN  IF hits # << >>
        THEN [currency |-> hits[1].currency, country |-> hits[1].country]
        ELSE IF endsWith(h, <<".", "j", "p">>)
        THEN [currency |-> "JPY", country |-> "JP"]
        ELSE IF \/ endsWith(h, <<".", "c", "o", ".", "u", "k">>)
                \/ endsWith(h, <<".", "u", "k">>)
                \/ endsWith(h, <<".", "c", "o", "m">>)
        THEN [currency |-> "GBP", country |-> "GB"]
        ELSE [currency |-> "GBP", country |-> "GB"]

\* mutant: the query does not look at the status
EligibleAnyStatus(store, emailNorm, shopDomain) ==
    LET Matches(i) == /\ store[i].email_norm = emailNorm
                      /\ store[i].shop_domain = shopDomain
                      /\ store[i].draft_order_id = NullId
    IN  SelectSeq([i \in 1..Len(store) |-> i], Matches)

\* mutant: the query does not look at draft_order_id
EligibleAlsoDrafted(store, emailNorm, shopDomain) ==
    LET Matches(i) == /\ store[i].email_norm = emailNorm
                      /\ store[i].shop_domain = shopDomain
                      /\ store[i].status = "accepted"
    IN  SelectSeq([i \in 1..Len(store) |-> i], Matches)

\* the ids of: SELECT * FROM offers WHERE email_norm=? AND shop_domain=? AND
\* status='accepted' AND (draft_order_id IS NULL OR draft_order_id='')
\* ORDER BY created_at ASC
Eligible(store, emailNorm, shopDomain) ==
    LET Matches(i) == /\ store[i].email_norm = emailNorm
                      /\ store[i].shop_domain = shopDomain
                      /\ store[i].status = "accepted"
                      /\ store[i].draft_order_id = NullId
    IN  SelectSeq([i \in 1..Len(store) |-> i], Matches)

\* mutant: a row with a bad variant id gets a line item all the same
ResolvableAll(rows) == rows

\* the rows the loop keeps: if (!numeric) continue
Resolvable(rows) ==
    LET Numeric(row) == ~BadNumericId(getNumericId(row.variant_id))
    IN  SelectSeq(rows, Numeric)

\* mutant: the price override is tagged with the currency stored on the offer
LineItemStoredCurrency(row, currency) ==
    [ variantId |-> getNumericId(row.variant_id), quantity |-> 1,
      priceOverride |-> [amount |-> toFixed2(row.offer_cents),
                         currencyCode |-> row.currency],
      OfferID |-> row.id ]

\* one element of line_items
LineItem(row, currency) ==
    [ variantId |-> getNumericId(row.variant_id), quantity |-> 1,
      priceOverride |-> [amount |-> toFixed2(row.offer_cents),
                         currencyCode |-> currency],
      OfferID |-> row.id ]

\* the input of draftOrderCreate, with the id the platform gives the order
DraftOrder(id, q) ==
    [ id |-> id, email |-> q.email, lineItems |-> q.lineItems,
      presentmentCurrencyCode |-> q.market.currency,
      note |-> q.ids, tags |-> {"make-offer"}, invoices |-> 0 ]

\* the bundler has not returned
NoResult == [draftId |-> NullId, count |-> 0, email |-> NoText, presentmentCurrency |-> ""]

\* what the draft handler holds when it starts
DraftRequest(key, id) ==
    Admin("draft", key, id, "") @@
    [ rows |-> << >>, ids |-> << >>, lineItems |-> << >>, email |-> NoText,
      market |-> resolveMarketForHost(NoText), draftId |-> NullId, error |-> "",
      result |-> NoResult ]

\* createDraftForEmailAndShop threw: the route logs the message and redirects
DraftFailed(q, message) ==
    [q EXCEPT !.error = message, !.pc = "done", !.resp = Redirect]

\* mutant: the offer is looked up before the key is compared
StartDraftLookupFirst(r, key, id, dbErr) ==
    /\ CanStart(r)
    /\ LET q == DraftRequest(key, id)
       IN  req' = [req EXCEPT ![r] =
             IF dbErr \/ id \notin 1..Len(offers)
             THEN [q EXCEPT !.resp = Response(404, "Offer not found", NullId)]
             ELSE IF key # cfg.admin_key
             THEN [q EXCEPT !.resp = Response(403, "Forbidden", NullId)]
             ELSE [q EXCEPT !.row = offers[id], !.pc = "collect"]]
    /\ UNCHANGED <<offers, now, rules, codes, drafts, cfg>>

\* GET /admin/offers/:id/draft up to and including the SELECT's callback
StartDraft(r, key, id, dbErr) ==
    /\ CanStart(r)
    /\ LET q == DraftRequest(key, id)
       IN  req' = [req EXCEPT ![r] =
             IF key # cfg.admin_key THEN [q EXCEPT !.resp = Response(403, "Forbidden", NullId)]
             ELSE IF dbErr \/ id \notin 1..Len(offers)
             THEN [q EXCEPT !.resp = Response(404, "Offer not found", NullId)]
             ELSE [q EXCEPT !.row = offers[id], !.pc = "collect"]]
    /\ UNCHANGED <<offers, now, rules, codes, drafts, cfg>>

\* the bundler from the answer of its query to its first platform call
Collected(q, store) ==
    LET ids == Eligible(store, q.row.email_norm, q.row.shop_domain)
        rows == [k \in 1..Len(ids) |-> store[ids[k]]]
        kept == Resolvable(rows)
        market == resolveMarketForHost(q.row.shop_domain)
    IN  IF rows = << >> THEN DraftFailed(q, "No accepted offers to draft")
        ELSE IF kept = << >>
        THEN DraftFailed([q EXCEPT !.rows = rows], "No valid line items from offers")
        ELSE IF ~cfg.shopify
        THEN DraftFailed([q EXCEPT !.rows = rows], "Shopify admin not configured")
        ELSE [q EXCEPT !.rows = rows, !.market = market, !.email = rows[1].email,
                       !.lineItems = [k \in 1..Len(kept) |->
                                         LineItem(kept[k], market.currency)],
                       !.ids = [k \in 1..Len(kept) |-> kept[k].id],
                       !.pc = "create", !.calls = @ + 1]

\* the SELECT of the eligible offers answered
CollectDraft(r, dbErr) ==
    /\ req[r].kind = "draft" /\ req[r].pc = "collect"
    /\ req' = [req EXCEPT ![r] =
           IF dbErr THEN DraftFailed(req[r], "store error")
           ELSE Collected(req[r], offers)]
    /\ UNCHANGED <<offers, now, rules, codes, drafts, cfg>>

\* mutant: the marker is written whatever the platform answered
DraftCreatedMarksAnyway(r, outcome) ==
    /\ req[r].kind = "draft" /\ req[r].pc = "create"
    /\ IF outcome = "ok"
       THEN /\ drafts' = Append(drafts, DraftOrder(Len(drafts) + 1, req[r]))
            /\ req' = [req EXCEPT ![r].draftId = Len(drafts) + 1, ![r].pc = "mark"]
            /\ UNCHANGED offers
       ELSE /\ req' = [req EXCEPT ![r] = DraftFailed(req[r],
                       IF outcome = "noid" THEN "Draft create failed"
                       ELSE "Shopify GraphQL error")]
            /\ offers' = [i \in 1..Len(offers) |->
                  IF \E k \in 1..Len(req[r].ids) : req[r].ids[k] = offers[i].id
                  THEN [offers[i] EXCEPT !.drafted_at = now]
                  ELSE offers[i]]
            /\ UNCHANGED drafts
    /\ UNCHANGED <<now, rules, codes, cfg>>

\* draftOrderCreate answered: with an order, with an error, or with no id
DraftCreated(r, outcome) ==
    /\ req[r].kind = "draft" /\ req[r].pc = "create"
    /\ IF outcome = "ok"
       THEN /\ drafts' = Append(drafts, DraftOrder(Len(drafts) + 1, req[r]))
            /\ req' = [req EXCEPT ![r].draftId = Len(drafts) + 1, ![r].pc = "mark"]
       ELSE /\ req' = [req EXCEPT ![r] = DraftFailed(req[r],
                       IF outcome = "noid" THEN "Draft create failed"
                       ELSE "Shopify GraphQL error")]
            /\ UNCHANGED drafts
    /\ UNCHANGED <<offers, now, rules, codes, cfg>>

\* mutant: the marker is written on every offer of the query
DraftWriteAllMatching(store, ids, draftId, t) ==
    [i \in 1..Len(store) |->
        IF store[i].status = "accepted"
        THEN [store[i] EXCEPT !.draft_order_id = draftId, !.drafted_at = t]
        ELSE store[i]]

\* UPDATE offers SET draft_order_id=?, drafted_at=CURRENT_TIMESTAMP
\* WHERE id IN (...)
DraftWrite(store, ids, draftId, t) ==
    [i \in 1..Len(store) |->
        IF \E k \in 1..Len(ids) : ids[k] = store[i].id
        THEN [store[i] EXCEPT !.draft_order_id = draftId, !.drafted_at = t]
        ELSE store[i]]

\* the marker UPDATE answered; on success the invoice is requested
MarkDone(r, err) ==
    /\ req[r].kind = "draft" /\ req[r].pc = "mark"
    /\ IF err
       THEN /\ req' = [req EXCEPT ![r] = DraftFailed(req[r], "store error")]
            /\ UNCHANGED offers
       ELSE /\ offers' = DraftWrite(offers, req[r].ids, req[r].draftId, now)
            /\ req' = [req EXCEPT ![r].pc = "invoice", ![r].calls = @ + 1]
    /\ UNCHANGED <<now, rules, codes, drafts, cfg>>

\* the mail of the route after the bundle
CheckoutMail(row) == [kind |-> "checkout", to |-> row.email, code |-> NoText]

\* return { draftId: gqlId, count: ids.length, email, presentmentCurrency }
Returned(q) ==
    [ draftId |-> q.draftId, count |-> Len(q.ids), email |-> q.email,
      presentmentCurrency |-> q.market.currency ]

\* mutant: a failure of the invoice fails the bundle
InvoiceDoneFailing(r, ok) ==
    /\ req[r].kind = "draft" /\ req[r].pc = "invoice"
    /\ drafts' = IF ok THEN [drafts EXCEPT ![req[r].draftId].invoices = @ + 1]
                 ELSE drafts
    /\ req' = [req EXCEPT ![r] =
           IF ok THEN [req[r] EXCEPT !.result = Returned(req[r]), !.pc = "done",
                                     !.resp = Redirect]
           ELSE DraftFailed(req[r], "Shopify GraphQL error")]
    /\ UNCHANGED <<offers, now, rules, codes, cfg>>

\* draftOrderInvoiceSend answered (a failure is only logged); the bundler
\* returns and the route mails the buyer
InvoiceDone(r, ok) ==
    /\ req[r].kind = "draft" /\ req[r].pc = "invoice"
    /\ drafts' = IF ok THEN [drafts EXCEPT ![req[r].draftId].invoices = @ + 1]
                 ELSE drafts
    /\ LET q == [req[r] EXCEPT !.result = Returned(req[r])]
       IN  req' = [req EXCEPT ![r] =
             IF CanMail(q.row)
             THEN [q EXCEPT !.pc = "mail", !.mails = Append(@, CheckoutMail(q.row))]
             ELSE [q EXCEPT !.pc = "done", !.resp = Redirect]]
    /\ UNCHANGED <<offers, now, rules, codes, cfg>>

----------------------------------------------------------------------------
(* Notification dispatcher: the buyer's language and the localized mails *)

\* the language keys there are templates for; the base language is English
LangEn == <<"e", "n">>
LangDe == <<"d", "e">>
LangPtPt == <<"p", "t", "-", "P", "T">>
SupportedLanguages == {LangEn, LangDe, LangPtPt}
BaseLanguage == LangEn

\* the part of a language tag before its region suffix
RECURSIVE primarySubtag(_)
primarySubtag(tag) ==
    IF tag = << >> \/ Head(tag) = "-" THEN << >>
    ELSE <<Head(tag)>> \o primarySubtag(Tail(tag))

\* mutant: every Portuguese is the Portuguese of Portugal
resolveLanguageAnyPortuguese(tag) ==
    IF tag \in SupportedLanguages THEN tag
    ELSE IF primarySubtag(tag) = <<"p", "t">> THEN LangPtPt
    ELSE IF primarySubtag(tag) \in SupportedLanguages THEN primarySubtag(tag)
    ELSE BaseLanguage

\* the language of a declared tag: the tag itself when it is supported, the
\* Portuguese of Portugal for its region variant, else the primary subtag
\* when that is supported, else the base language
resolveLanguage(tag) ==
    IF tag \in SupportedLanguages THEN tag
    ELSE IF tag = LangPtPt THEN LangPtPt
    ELSE IF primarySubtag(tag) \in SupportedLanguages THEN primarySubtag(tag)
    ELSE BaseLanguage

\* the subject and body builders of a kind of mail in a language
Template(kind, language) == [kind |-> kind, language |-> language]

\* notify(kind, recipient, language, params): the mail is built from the
\* templates of the resolved language and handed over, fire and forget
Notify(r, kind, recipient, language) ==
    /\ CanStart(r)
    /\ req' = [req EXCEPT ![r] =
           [ kind |-> "notify", pc |-> "done", declared |-> language,
             mails |-> << [ to |-> recipient,
                            template |-> Template(kind, resolveLanguage(language)) ] >> ]]
    /\ UNCHANGED <<offers, now, rules, codes, drafts, cfg>>

----------------------------------------------------------------------------
(* The clock *)

Tick ==
    /\ now < MaxTime
    /\ now' = now + 1
    /\ UNCHANGED <<offers, req, rules, codes, drafts, cfg>>

----------------------------------------------------------------------------
(* Inputs and configurations *)

ShopOrigin == "https://shop"

\* "A@x.io" and "a@x.io" share the normalized email; "a@x" has no top level
EmailUpper == <<"A", "@", "x", ".", "i", "o">>
EmailLower == <<"a", "@", "x", ".", "i", "o">>
EmailBad   == <<"a", "@", "x">>

\* the hosts of the shops
ShopCom == <<"s", ".", "c", "o", "m">>
ShopJp  == <<"s", ".", "j", "p">>

Variant7 == <<"v", "7">>
Variant8 == <<"v", "8">>

Body(email, variant_id, offer, price_cents) ==
    [ origin |-> ShopOrigin, email |-> email, product_id |-> "p",
      variant_id |-> variant_id, offer |-> offer, price_cents |-> price_cents,
      shop_domain |-> ShopCom, currency |-> "" ]

\* offers of 0.50 on a variant listed at 1.00, under both spellings of the
\* email; an offer of 1.00 on another variant listed at 1.00; a bad email
OfferInputs ==
    { Body(EmailUpper, Variant7, Amount(500), 100),
      Body(EmailLower, Variant7, Amount(500), 100),
      Body(EmailLower, Variant8, Amount(1000), 100),
      Body(EmailBad, Variant7, Amount(500), 100) }

AdminKey == "k"

Config(mailer, offer_to_email, shopify) ==
    [ allow |-> {ShopOrigin}, mailer |-> mailer, offer_to_email |-> offer_to_email,
      shopify |-> shopify, admin_key |-> AdminKey, market_map |-> << >> ]

InitWith(configs) ==
    /\ offers = << >>
    /\ req = [r \in Reqs |-> Idle]
    /\ now = 0
    /\ rules = << >>
    /\ codes = {}
    /\ drafts = << >>
    /\ cfg \in configs

----------------------------------------------------------------------------
(* The admin workflow within one clock unit: offers arrive, the admin moves *)
(* the offers there are, accepts and create-code requests provision; the    *)
(* platform, the store's writes and the mailer may fail                     *)

\* the bodies submitted: the two provisionable spellings and the offer at list price
Submitted ==
    { Body(EmailUpper, Variant7, Amount(500), 100),
      Body(EmailLower, Variant8, Amount(1000), 100) }

Init == InitWith({Config(m, FALSE, TRUE) : m \in BOOLEAN})

Next ==
    \/ \E r \in Reqs, in \in Submitted : SubmitOffer(r, in, FALSE)
    \/ \E r \in Reqs : InsertOffer(r, FALSE)
    \/ \E r \in Reqs, id \in DOMAIN offers, value \in STATUSES :
          StartStatus(r, AdminKey, id, value, FALSE)
    \/ \E r \in Reqs, uerr \in BOOLEAN, suffix \in Suffixes : UpdateStatus(r, uerr, suffix)
    \/ \E r \in Reqs, id \in DOMAIN offers, suffix \in Suffixes :
          StartCode(r, AdminKey, id, FALSE, suffix)
    \/ \E r \in Reqs, outcome \in {"ok", "fail", "noid"} : RuleDone(r, outcome)
    \/ \E r \in Reqs, ok \in BOOLEAN : CodeDone(r, ok)
    \/ \E r \in Reqs, err \in BOOLEAN : StoreDone(r, err)
    \/ \E r \in Reqs, delivered \in BOOLEAN : MailDone(r, delivered)

Spec == Init /\ [][Next]_vars

----------------------------------------------------------------------------
(* Provisioning over offers of every price shape: what is listed at 100.00 *)
(* and offered 50.00, offered at and above the listed price, listed at no  *)
(* price, and on variants whose id ends in no digits or in the digit 0     *)

Variant9 == <<"v", "9">>
VariantPlain == <<"7", "1">>
VariantNoDigits == <<"7", "v">>
VariantZero == <<"v", "0">>

Priced ==
    { Body(EmailLower, Variant7, Amount(50000), 10000),
      Body(EmailLower, VariantPlain, Amount(250), 100),
      Body(EmailLower, Variant8, Amount(1000), 100),
      Body(EmailLower, Variant9, Amount(2000), 100),
      Body(EmailUpper, Variant7, Amount(500), 0),
      Body(EmailLower, VariantNoDigits, Amount(500), 100),
      Body(EmailLower, VariantZero, Amount(500), 100) }

InitProvision == InitWith({Config(FALSE, FALSE, TRUE)})

NextProvision ==
    \/ \E r \in Reqs, in \in Priced : SubmitOffer(r, in, FALSE)
    \/ \E r \in Reqs : InsertOffer(r, FALSE)
    \/ \E r \in Reqs, id \in DOMAIN offers :
          StartStatus(r, AdminKey, id, "accepted", FALSE)
    \/ \E r \in Reqs : UpdateStatus(r, FALSE, "X")
    \/ \E r \in Reqs, id \in DOMAIN offers : StartCode(r, AdminKey, id, FALSE, "X")
    \/ \E r \in Reqs, outcome \in {"ok", "fail"} : RuleDone(r, outcome)
    \/ \E r \in Reqs, ok \in BOOLEAN : CodeDone(r, ok)
    \/ \E r \in Reqs, err \in BOOLEAN : StoreDone(r, err)

SpecProvision == InitProvision /\ [][NextProvision]_vars

----------------------------------------------------------------------------
(* Validation: submissions over the request bodies that fail every         *)
(* combination of the checks and over the amounts, with and without an     *)
(* origin allow-list, the store answering or failing                       *)

OtherOrigin == "https://other"

\* an email the handler has to trim
EmailPadded == <<" ", "a", "@", "x", ".", "i", "o", " ">>

BodyOf(origin, email, product_id, variant_id, offer) ==
    [ Body(email, variant_id, offer, 100) EXCEPT
        !.origin = origin, !.product_id = product_id ]

\* 19.995, 19.994, 1.005, 0.005, 0.004, 0, -10.00 and what does not parse
Amounts == {Amount(m) : m \in {19995, 19994, 1005, 5, 4, 0, -10000}} \cup {NotANumber}

Submissions ==
    { BodyOf(o, e, p, v, a) :
        o \in {ShopOrigin, OtherOrigin}, e \in {EmailLower, EmailBad},
        p \in {"p", ""}, v \in {Variant7, <<>>},
        a \in {Amount(19995), NotANumber} }
    \cup { Body(EmailPadded, Variant8, a, 100) : a \in Amounts }

Submits == 1..MaxSubmits

InitValidate ==
    InitWith({ [Config(FALSE, FALSE, FALSE) EXCEPT !.allow = a] :
                 a \in {{}, {ShopOrigin}} })

NextValidate ==
    \/ \E r \in Submits, in \in Submissions, dbErr \in BOOLEAN :
          SubmitOffer(r, in, dbErr)
    \/ \E r \in Submits, insertErr \in BOOLEAN : InsertOffer(r, insertErr)

SpecValidate == InitValidate /\ [][NextValidate]_vars

----------------------------------------------------------------------------
(* Notification of a new offer: submissions, good and refused, under every *)
(* configuration of the mailer and the operations mailbox, the store       *)
(* answering or failing, the deliveries settling or not                    *)

InitNotify == InitWith({Config(m, o, FALSE) : m \in BOOLEAN, o \in BOOLEAN})

\* bodies from a forbidden origin, without a product id and with no amount
RefusedInputs ==
    { BodyOf(OtherOrigin, EmailLower, "p", Variant7, Amount(500)),
      BodyOf(ShopOrigin, EmailLower, "", Variant7, Amount(500)),
      BodyOf(ShopOrigin, EmailLower, "p", Variant7, Amount(0)) }

NextNotify ==
    \/ \E r \in Submits, in \in OfferInputs \cup RefusedInputs, dbErr \in BOOLEAN :
          SubmitOffer(r, in, dbErr)
    \/ \E r \in Submits, insertErr \in BOOLEAN : InsertOffer(r, insertErr)
    \/ \E r \in Submits, k \in 1..2, delivered \in BOOLEAN : SettleMail(r, k, delivered)

SpecNotify == InitNotify /\ [][NextNotify]_vars

----------------------------------------------------------------------------
(* Bundling: draft requests, one after the other or at once, over every    *)
(* store of three offers that differ in email, shop, status and variant;   *)
(* the platform may refuse the draft order                                 *)

EmailOther == <<"b", "@", "x", ".", "i", "o">>

Shape(email, shop_domain, variant_id, status) ==
    [email |-> email, shop_domain |-> shop_domain, variant_id |-> variant_id,
     status |-> status]

\* the buyer's offers on variant v7 in shop s.com in each status, the buyer's
\* accepted offers on a variant without a numeric id and in shop s.jp, and
\* another buyer's accepted offer
Shapes ==
    << Shape(EmailLower, ShopCom, Variant7, "accepted"),
       Shape(EmailLower, ShopCom, VariantNoDigits, "accepted"),
       Shape(EmailLower, ShopCom, Variant7, "open"),
       Shape(EmailLower, ShopCom, Variant7, "declined"),
       Shape(EmailLower, ShopCom, Variant7, "expired"),
       Shape(EmailLower, ShopJp, Variant7, "accepted"),
       Shape(EmailOther, ShopCom, Variant7, "accepted") >>

\* the offer of a shape as intake stored it and a status request left it
Stored(id, shape) ==
    [ InsertedRow(BuildRow([Body(shape.email, shape.variant_id, Amount(500), 100)
                              EXCEPT !.shop_domain = shape.shop_domain]), id, 0)
        EXCEPT !.status = shape.status ]

\* the stores of three offers, in the order of the shapes: which of them was
\* submitted first makes no difference to a bundle
Stores ==
    { <<Stored(1, Shapes[t[1]]), Stored(2, Shapes[t[2]]), Stored(3, Shapes[t[3]])>> :
        t \in { u \in (DOMAIN Shapes) \X (DOMAIN Shapes) \X (DOMAIN Shapes) :
                  u[1] <= u[2] /\ u[2] <= u[3] } }

Drafters == 1..MaxDrafts

InitDraft ==
    /\ offers \in Stores
    /\ req = [r \in Reqs |-> Idle]
    /\ now = 0
    /\ rules = << >>
    /\ codes = {}
    /\ drafts = << >>
    /\ cfg = Config(FALSE, FALSE, TRUE)

NextDraft ==
    \/ \E r \in Drafters, id \in DOMAIN offers : StartDraft(r, AdminKey, id, FALSE)
    \/ \E r \in Drafters : CollectDraft(r, FALSE)
    \/ \E r \in Drafters, outcome \in {"ok", "fail"} : DraftCreated(r, outcome)
    \/ \E r \in Drafters : MarkDone(r, FALSE)
    \/ \E r \in Drafters : InvoiceDone(r, TRUE)

SpecDraft == InitDraft /\ [][NextDraft]_vars

----------------------------------------------------------------------------
(* Bundling under faults: the store may fail the query and the marker      *)
(* write, the platform may refuse the draft order, answer without an id,   *)
(* or fail to send the invoice                                             *)

\* the stores of the buyer's offers in shop s.com, the first accepted on v7,
\* the others accepted on v7 or on the variant without a numeric id, or open
FaultStores ==
    { s \in Stores :
        /\ s[1].variant_id = Variant7 /\ s[1].status = "accepted"
        /\ \A i \in 1..Len(s) :
              /\ s[i].email_norm = EmailLower /\ s[i].shop_domain = ShopCom
              /\ s[i].status \in {"accepted", "open"} }

InitDraftFaults ==
    /\ offers \in FaultStores
    /\ req = [r \in Reqs |-> Idle]
    /\ now = 0
    /\ rules = << >>
    /\ codes = {}
    /\ drafts = << >>
    /\ cfg = Config(FALSE, FALSE, TRUE)

NextDraftFaults ==
    \/ \E r \in Drafters, id \in DOMAIN offers : StartDraft(r, AdminKey, id, FALSE)
    \/ \E r \in Drafters, dbErr \in BOOLEAN : CollectDraft(r, dbErr)
    \/ \E r \in Drafters, outcome \in {"ok", "fail", "noid"} : DraftCreated(r, outcome)
    \/ \E r \in Drafters, err \in BOOLEAN : MarkDone(r, err)
    \/ \E r \in Drafters, ok \in BOOLEAN : InvoiceDone(r, ok)

SpecDraftFaults == InitDraftFaults /\ [][NextDraftFaults]_vars

----------------------------------------------------------------------------
(* Bundling across markets: draft requests over stores of two accepted     *)
(* offers of one buyer, in shops of several hosts and with several stored  *)
(* currencies, with and without an entry in MARKET_MAP_JSON                *)

ShopJpUpper == <<"s", ".", "J", "P">>
ShopDe      == <<"a", ".", "d", "e">>
ShopDeUpper == <<"A", ".", "d", "e">>

\* MARKET_MAP_JSON unset, or with an entry for the .de shop
MarketMaps ==
    { << >>, << [host |-> ShopDeUpper, currency |-> "EUR", country |-> "DE"] >> }

MarketShops == <<ShopCom, ShopJp, ShopJpUpper, ShopDe>>
StoredCurrencies == <<"", "USD">>

\* an accepted offer of the buyer as intake stored it for a body with that
\* shop, currency and amount
MarketStored(id, shop, currency, offer) ==
    [ InsertedRow(BuildRow([Body(EmailLower, Variant7, offer, 10000)
                              EXCEPT !.shop_domain = shop, !.currency = currency]),
                  id, 0)
        EXCEPT !.status = "accepted" ]

\* the stores of an offer of 0.50 and an offer of 19.99; the shops and the
\* currencies in their order, the second offer's not before the first's
MarketStores ==
    { << MarketStored(1, MarketShops[t[1]], StoredCurrencies[t[2]], Amount(500)),
         MarketStored(2, MarketShops[t[3]], StoredCurrencies[t[4]], Amount(19990)) >> :
        t \in { u \in (DOMAIN MarketShops) \X (DOMAIN StoredCurrencies)
                        \X (DOMAIN MarketShops) \X (DOMAIN StoredCurrencies) :
                  u[1] <= u[3] } }

InitMarket ==
    /\ offers \in MarketStores
    /\ req = [r \in Reqs |-> Idle]
    /\ now = 0
    /\ rules = << >>
    /\ codes = {}
    /\ drafts = << >>
    /\ cfg \in {[Config(FALSE, FALSE, TRUE) EXCEPT !.market_map = m] : m \in MarketMaps}

NextMarket ==
    \/ \E r \in Drafters, id \in DOMAIN offers : StartDraft(r, AdminKey, id, FALSE)
    \/ \E r \in Drafters : CollectDraft(r, FALSE)
    \/ \E r \in Drafters : DraftCreated(r, "ok")
    \/ \E r \in Drafters : MarkDone(r, FALSE)
    \/ \E r \in Drafters : InvoiceDone(r, TRUE)

SpecMarket == InitMarket /\ [][NextMarket]_vars

----------------------------------------------------------------------------
(* The admin key: requests to the four admin routes with the configured    *)
(* key, another key and no key, for offers there are and are not, over a   *)
(* store of an accepted and an open offer, with mailer and platform        *)

\* the configured key, another key, no key
Keys == {AdminKey, "x", ""}

\* the ids asked for: the accepted offer, the open offer and an offer there
\* is not
AskedIds == {1, 2, 9}

\* the values asked for: a status, what the route refuses, and none
AskedValues == {"accepted", "bogus", ""}

Admins == 1..MaxAdmins

InitKeys ==
    /\ offers = <<Stored(1, Shapes[1]), Stored(2, Shapes[3])>>
    /\ req = [r \in Reqs |-> Idle]
    /\ now = 0
    /\ rules = << >>
    /\ codes = {}
    /\ drafts = << >>
    /\ cfg = Config(TRUE, FALSE, TRUE)

NextKeys ==
    \/ \E r \in Admins, key \in Keys : StartList(r, key, FALSE)
    \/ \E r \in Admins, key \in Keys, id \in AskedIds, value \in AskedValues :
          StartStatus(r, key, id, value, FALSE)
    \/ \E r \in Admins, key \in Keys, id \in AskedIds : StartCode(r, key, id, FALSE, "X")
    \/ \E r \in Admins, key \in Keys, id \in AskedIds : StartDraft(r, key, id, FALSE)
    \/ \E r \in Admins : UpdateStatus(r, FALSE, "X")
    \/ \E r \in Admins : RuleDone(r, "ok")
    \/ \E r \in Admins : CodeDone(r, TRUE)
    \/ \E r \in Admins : StoreDone(r, FALSE)
    \/ \E r \in Admins : MailDone(r, TRUE)
    \/ \E r \in Admins : CollectDraft(r, FALSE)
    \/ \E r \in Admins : DraftCreated(r, "ok")
    \/ \E r \in Admins : MarkDone(r, FALSE)
    \/ \E r \in Admins : InvoiceDone(r, TRUE)

SpecKeys == InitKeys /\ [][NextKeys]_vars

----------------------------------------------------------------------------
(* Localized notifications: acceptance and decline mails for buyers of     *)
(* every kind of declared language                                        *)

LangPtBr == <<"p", "t", "-", "B", "R">>
LangPt   == <<"p", "t">>
LangDeAt == <<"d", "e", "-", "A", "T">>
LangEnGb == <<"e", "n", "-", "G", "B">>
LangFrCa == <<"f", "r", "-", "C", "A">>

\* supported tags, regional variants of supported and of unsupported
\* languages, and no declared language
DeclaredLanguages ==
    { LangEn, LangDe, LangPtPt, LangPtBr, LangPt, LangDeAt, LangEnGb, LangFrCa,
      NoText }

InitLanguage == InitWith({Config(TRUE, FALSE, FALSE)})

NextLanguage ==
    \E r \in Reqs, kind \in {"accepted", "declined"}, language \in DeclaredLanguages :
        Notify(r, kind, EmailLower, language)

SpecLanguage == InitLanguage /\ [][NextLanguage]_vars

----------------------------------------------------------------------------
(* The stored offers: submissions of finite and infinite, positive and     *)
(* negative amounts at positive and negative listed prices, and status     *)
(* requests of every value, in a deployment without platform and mailer    *)

\* offers of 0.50, of Infinity and of -10.00, listed at 1.00 and at -0.05
Offered ==
    { Body(EmailLower, Variant7, a, p) :
        a \in {Amount(500), InfiniteAmount, Amount(-10000)}, p \in {100, -5} }

\* the values of ?value=: the statuses, none, and another word
StatusValues == STATUSES \cup {"", "bogus"}

InitStored == InitWith({Config(FALSE, FALSE, FALSE)})

NextStored ==
    \/ \E r \in Reqs, in \in Offered : SubmitOffer(r, in, FALSE)
    \/ \E r \in Reqs : InsertOffer(r, FALSE)
    \/ \E r \in Reqs, id \in DOMAIN offers, value \in StatusValues :
          StartStatus(r, AdminKey, id, value, FALSE)
    \/ \E r \in Reqs, uerr \in BOOLEAN : UpdateStatus(r, uerr, "X")

SpecStored == InitStored /\ [][NextStored]_vars

----------------------------------------------------------------------------
(* The life of stored offers: status transitions, create-code requests and *)
(* draft requests over two accepted offers of one buyer and shop, the      *)
(* store and the platform answering or failing at every step               *)

InitLifecycle ==
    /\ offers = <<Stored(1, Shapes[1]), Stored(2, Shapes[1])>>
    /\ req = [r \in Reqs |-> Idle]
    /\ now = 0
    /\ rules = << >>
    /\ codes = {}
    /\ drafts = << >>
    /\ cfg = Config(FALSE, FALSE, TRUE)

NextLifecycle ==
    \/ \E r \in Admins, id \in DOMAIN offers, value \in {"open", "accepted"} :
          StartStatus(r, AdminKey, id, value, FALSE)
    \/ \E r \in Admins, uerr \in BOOLEAN : UpdateStatus(r, uerr, "X")
    \/ \E r \in Admins, id \in DOMAIN offers : StartCode(r, AdminKey, id, FALSE, "X")
    \/ \E r \in Admins, outcome \in {"ok", "fail", "noid"} : RuleDone(r, outcome)
    \/ \E r \in Admins, ok \in BOOLEAN : CodeDone(r, ok)
    \/ \E r \in Admins, err \in BOOLEAN : StoreDone(r, err)
    \/ \E r \in Admins, id \in DOMAIN offers : StartDraft(r, AdminKey, id, FALSE)
    \/ \E r \in Admins, dbErr \in BOOLEAN : CollectDraft(r, dbErr)
    \/ \E r \in Admins, outcome \in {"ok", "fail", "noid"} : DraftCreated(r, outcome)
    \/ \E r \in Admins, err \in BOOLEAN : MarkDone(r, err)
    \/ \E r \in Admins, ok \in BOOLEAN : InvoiceDone(r, ok)

SpecLifecycle == InitLifecycle /\ [][NextLifecycle]_vars

----------------------------------------------------------------------------
(* After a bundle: status transitions and draft requests over a store in   *)
(* which the buyer's first offer is in a draft order and the second is not *)

\* an accepted offer of the buyer at the listed price, which needs no discount
AtListPrice(id) ==
    [ InsertedRow(BuildRow(Body(EmailLower, Variant7, Amount(1000), 100)), id, 0)
        EXCEPT !.status = "accepted" ]

\* the first offer is in a draft order of its own, its invoice sent
InitRebundle ==
    /\ offers = << DraftWrite(<<AtListPrice(1)>>, <<1>>, 1, 0)[1], AtListPrice(2) >>
    /\ req = [r \in Reqs |-> Idle]
    /\ now = 1
    /\ rules = << >>
    /\ codes = {}
    /\ drafts =
         << [ DraftOrder(1, [ email |-> EmailLower, ids |-> <<1>>,
                              lineItems |-> <<LineItem(AtListPrice(1), "GBP")>>,
                              market |-> [currency |-> "GBP", country |-> "GB"] ])
                EXCEPT !.invoices = 1 ] >>
    /\ cfg = Config(FALSE, FALSE, TRUE)

NextRebundle ==
    \/ \E r \in Reqs, id \in DOMAIN offers, value \in {"open", "accepted"} :
          StartStatus(r, AdminKey, id, value, FALSE)
    \/ \E r \in Reqs : UpdateStatus(r, FALSE, "X")
    \/ \E r \in Reqs, id \in DOMAIN offers : StartDraft(r, AdminKey, id, FALSE)
    \/ \E r \in Reqs : CollectDraft(r, FALSE)
    \/ \E r \in Reqs : DraftCreated(r, "ok")
    \/ \E r \in Reqs : MarkDone(r, FALSE)
    \/ \E r \in Reqs : InvoiceDone(r, TRUE)

SpecRebundle == InitRebundle /\ [][NextRebundle]_vars

----------------------------------------------------------------------------
(* Every request to its response: submissions and admin requests over a    *)
(* store of an accepted and an open offer, with and without a mailer,      *)
(* every call of a handler failing or not, and each call answered in the   *)
(* end                                                                     *)

InitResponds ==
    /\ offers = <<Stored(1, Shapes[1]), Stored(2, Shapes[3])>>
    /\ req = [r \in Reqs |-> Idle]
    /\ now = 0
    /\ rules = << >>
    /\ codes = {}
    /\ drafts = << >>
    /\ cfg \in {Config(m, m, TRUE) : m \in BOOLEAN}

\* the call the handler of r waits for returns or fails, and the handler
\* runs to its next call or to its end
Returns(r) ==
    \/ \E insertErr \in BOOLEAN : InsertOffer(r, insertErr)
    \/ \E uerr \in BOOLEAN : UpdateStatus(r, uerr, "X")
    \/ \E outcome \in {"ok", "fail", "noid"} : RuleDone(r, outcome)
    \/ \E ok \in BOOLEAN : CodeDone(r, ok)
    \/ \E err \in BOOLEAN : StoreDone(r, err)
    \/ \E delivered \in BOOLEAN : MailDone(r, delivered)
    \/ \E dbErr \in BOOLEAN : CollectDraft(r, dbErr)
    \/ \E outcome \in {"ok", "fail", "noid"} : DraftCreated(r, outcome)
    \/ \E err \in BOOLEAN : MarkDone(r, err)
    \/ \E ok \in BOOLEAN : InvoiceDone(r, ok)

\* a request arrives: a body that is stored or one that is refused, or an
\* admin request with the configured key or another, for an offer there is
\* or is not, its first query of the store failing or not; a call returns;
\* a mail of a submission settles
NextResponds ==
    \/ \E r \in 1..MaxAsked, dbErr \in BOOLEAN,
          in \in { Body(EmailLower, Variant8, Amount(1000), 100),
                   Body(EmailBad, Variant7, Amount(500), 100) } :
          SubmitOffer(r, in, dbErr)
    \/ \E r \in 1..MaxAsked, key \in {AdminKey, "x"}, id \in {1, 2, 9},
          value \in {"accepted", "declined", "open", "bogus"}, dbErr \in BOOLEAN :
          StartStatus(r, key, id, value, dbErr)
    \/ \E r \in 1..MaxAsked, key \in {AdminKey, "x"}, id \in {1, 2, 9}, dbErr \in BOOLEAN :
          StartCode(r, key, id, dbErr, "X")
    \/ \E r \in 1..MaxAsked, key \in {AdminKey, "x"}, id \in {1, 2, 9}, dbErr \in BOOLEAN :
          StartDraft(r, key, id, dbErr)
    \/ \E r \in 1..MaxAsked : Returns(r)
    \/ \E r \in 1..MaxAsked, k \in 1..2, delivered \in BOOLEAN : SettleMail(r, k, delivered)

\* no call of a handler stays unanswered for ever
SpecResponds ==
    /\ InitResponds
    /\ [][NextResponds]_vars
    /\ \A r \in 1..MaxAsked : WF_vars(Returns(r))

----------------------------------------------------------------------------
(* Intake over the dedupe window: submissions and status transitions while *)
(* the clock runs, in a deployment without platform credentials and        *)
(* without a mailer, the store answering every query                       *)

InitIntake == InitWith({Config(FALSE, FALSE, FALSE)})

NextIntake ==
    \/ \E r \in Reqs, in \in OfferInputs : SubmitOffer(r, in, FALSE)
    \/ \E r \in Reqs : InsertOffer(r, FALSE)
    \/ \E r \in Reqs, id \in DOMAIN offers, value \in STATUSES :
          StartStatus(r, AdminKey, id, value, FALSE)
    \/ \E r \in Reqs, suffix \in Suffixes : UpdateStatus(r, FALSE, suffix)
    \/ Tick

SpecIntake == InitIntake /\ [][NextIntake]_vars

----------------------------------------------------------------------------
(* Vocabulary of the properties *)

\* request r takes a step
Steps(r) == req'[r] # req[r]

\* r is a submission that passed the four validation checks
ValidSubmission(q) == q.kind = "offer" /\ ValidationError(q.in) = ""

SamePair(a, b) == a.email_norm = b.email_norm /\ a.variant_id = b.variant_id

\* the offers of row's (normalized email, variant id) pair
PairOffers(store, row) == {i \in 1..Len(store) : SamePair(store[i], row)}

\* the pair's open offers created at most 24 hours before t
OpenRecent(store, row, t) ==
    {i \in PairOffers(store, row) :
        store[i].status = "open" /\ t - store[i].created_at <= Day}

\* the three discount columns and the two draft columns of an offer
DiscountFields(o) == <<o.discount_code, o.price_rule_id, o.discount_expires_at>>
DraftFields(o) == <<o.draft_order_id, o.drafted_at>>

----------------------------------------------------------------------------
(* C1 *)

\* C1: a valid submission whose dedupe query is answered while the store holds
\* an open offer of its (lower-cased email, variant id) pair created less than
\* 24 hours before is answered 429 and inserts nothing; that offer was
\* announced to its submitter as {ok:true,id}; and when these are the pair's
\* only two submissions the store holds exactly one offer of the pair.
C1_SecondIsDuplicate ==
    [][\A r \in Reqs :
        ( /\ req[r].kind = "none" /\ ValidSubmission(req'[r])
          /\ \E i \in PairOffers(offers, req'[r].row) :
                offers[i].status = "open" /\ now - offers[i].created_at < Day )
        => /\ req'[r].pc = "done" /\ req'[r].resp.status = 429
           /\ offers' = offers
           /\ \A i \in PairOffers(offers, req'[r].row) :
                \E q \in Reqs \ {r} : /\ ValidSubmission(req[q])
                                       /\ req[q].resp = Response(200, "", i)
           /\ Cardinality({q \in Reqs : /\ ValidSubmission(req'[q])
                                         /\ SamePair(req'[q].row, req'[r].row)}) = 2
                => Cardinality(PairOffers(offers', req'[r].row)) = 1
    ]_vars

\* the same address in two spellings: the first submission was answered with
\* its id, the second with 429, and the store holds one offer
C1_Witness ==
    \E q, r \in Reqs :
        /\ ValidSubmission(req[q]) /\ ValidSubmission(req[r])
        /\ req[q].row.email # req[r].row.email
        /\ SamePair(req[q].row, req[r].row)
        /\ req[q].resp = Response(200, "", 1)
        /\ req[r].pc = "done" /\ req[r].resp.status = 429
        /\ Len(offers) = 1

----------------------------------------------------------------------------
(* C2 *)

\* C2 as claimed: in every reachable state every pair has at most one open
\* offer created within the last 24 hours.
C2_AtMostOneOpenRecent ==
    \A i \in 1..Len(offers) : Cardinality(OpenRecent(offers, offers[i], now)) <= 1

\* a submission passed its dedupe query before another one of its pair inserted
SomeRaced == \E r \in Reqs : req[r].kind = "offer" /\ req[r].raced

\* a status request with value open has written
SomeReopened ==
    \E r \in Reqs : /\ req[r].kind = "status" /\ req[r].val = "open"
                     /\ req[r].pc = "done" /\ req[r].resp = Redirect

\* C2 amended: every pair has at most one open offer created within the last
\* 24 hours as long as no submission of the pair inserted between another
\* one's dedupe query and insert, and no status request has set an offer to open.
C2_AtMostOneOpenRecentSerial ==
    (~SomeRaced /\ ~SomeReopened) => C2_AtMostOneOpenRecent

\* the dedupe at work without a race or a reopen: a declined offer and the
\* open offer submitted after it, of one pair
C2_Witness ==
    /\ ~SomeRaced /\ ~SomeReopened
    /\ Len(offers) = 2 /\ SamePair(offers[1], offers[2])
    /\ offers[1].status = "declined" /\ offers[2].status = "open"
    /\ now - offers[1].created_at <= Day

----------------------------------------------------------------------------
(* C3 *)

\* C3: a valid submission whose dedupe query is answered while every offer of
\* its pair in the store is not open or was created more than 24 hours before
\* goes on to its insert, and its insert adds one open offer of that pair and
\* answers {ok:true,id}; offers of other pairs (the same email on another
\* variant) are not looked at.
C3_FreshPairIsAccepted ==
    [][\A r \in Reqs :
        /\ ( /\ req[r].kind = "none" /\ ValidSubmission(req'[r])
             /\ \A i \in PairOffers(offers, req'[r].row) :
                   offers[i].status # "open" \/ now - offers[i].created_at > Day )
           => req'[r].pc = "insert"
        /\ (req[r].kind = "offer" /\ req[r].pc = "insert" /\ req'[r].pc = "done")
           => /\ req'[r].resp = Response(200, "", Len(offers) + 1)
              /\ Len(offers') = Len(offers) + 1
              /\ SubSeq(offers', 1, Len(offers)) = offers
              /\ LET o == offers'[Len(offers')]
                 IN  /\ o.id = Len(offers') /\ o.status = "open"
                     /\ SamePair(o, req[r].row)
                     /\ o.email_norm = toLowerCase(trim(req[r].in.email))
                     /\ o.variant_id = req[r].in.variant_id
    ]_vars

\* a second offer of a pair accepted while the first, less than 24 hours old,
\* is declined, and each answered with its id
C3_Witness ==
    /\ Len(offers) = 2 /\ SamePair(offers[1], offers[2])
    /\ offers[1].status # "open" /\ offers[2].status = "open"
    /\ offers[2].created_at - offers[1].created_at < Day
    /\ \A i \in 1..2 : \E r \in Reqs :
          ValidSubmission(req[r]) /\ req[r].resp = Response(200, "", i)

----------------------------------------------------------------------------
(* C4 *)

\* provisioning is requested by q: an accept, or a create-code request
Provisions(q) ==
    \/ q.kind = "code"
    \/ q.kind = "status" /\ q.val = "accepted"

\* C4: a request for provisioning (accept or create-code) that read the offer
\* after a code was stored on it is a no-op: it makes no platform call, creates
\* no price rule and no code, and no step of it changes the discount columns
\* of any offer.
C4_SecondProvisioningIsNoOp ==
    [][\A r \in Reqs :
        ( /\ Provisions(req'[r]) /\ req'[r].row # NoRow
          /\ req'[r].row.discount_code # NoText )
        => /\ req'[r].calls = 0 /\ req'[r].priceRuleId = NullId
           /\ req'[r].pc \in {"update", "mail", "done"}
           /\ Steps(r) =>
                /\ rules' = rules /\ codes' = codes
                /\ Len(offers') = Len(offers)
                /\ \A i \in 1..Len(offers) :
                      DiscountFields(offers'[i]) = DiscountFields(offers[i])
    ]_vars

\* an accept stored a code with its two platform calls; the create-code
\* request after it made none, and the one rule and the one code are the accept's
C4_Witness ==
    \E q, r \in Reqs :
        /\ req[q].kind = "status" /\ req[q].val = "accepted" /\ req[q].calls = 2
        /\ req[q].codeInfo.code # NoText
        /\ req[r].kind = "code" /\ req[r].id = req[q].id
        /\ req[r].pc = "done" /\ req[r].resp = Redirect /\ req[r].calls = 0
        /\ req[r].row.discount_code = req[q].codeInfo.code
        /\ offers[req[q].id].discount_code = req[q].codeInfo.code
        /\ Len(rules) = 1 /\ Cardinality(codes) = 1

----------------------------------------------------------------------------
(* C5 *)

\* C5: once an offer's discount code is non-empty no step replaces it by
\* another code.
C5_DiscountCodeWriteOnce ==
    [][\A i \in 1..Len(offers) :
        offers[i].discount_code # NoText
            => offers'[i].discount_code = offers[i].discount_code
    ]_vars

----------------------------------------------------------------------------
(* C6 *)

\* C6: an accept or decline request whose status write succeeded has set the
\* status to its value whatever the provisioning preconditions say; no later
\* step of it (a platform call failing, the store write of the code failing,
\* a mail failing) changes any status; and it ends with the redirect: the
\* only error response of a request that reached the status write is that of
\* the failed status write itself.
C6_AcceptSurvivesFailures ==
    [][\A r \in Reqs :
        ( /\ req[r].kind = "status" /\ req[r].val \in {"accepted", "declined"}
          /\ Steps(r) )
        => /\ (req[r].pc = "update" /\ req'[r].resp.status # 500)
                => offers'[req[r].id].status = req[r].val
           /\ req[r].pc # "update"
                => /\ Len(offers') = Len(offers)
                   /\ \A i \in 1..Len(offers) : offers'[i].status = offers[i].status
           /\ req'[r].pc = "done"
                => \/ req'[r].resp = Redirect
                   \/ req[r].pc = "update" /\ req'[r].resp.status = 500
    ]_vars

\* an accept whose two platform calls succeeded and whose store write of the
\* code failed: redirected, the offer accepted and without a code
C6_Witness ==
    \E r \in Reqs :
        /\ req[r].kind = "status" /\ req[r].val = "accepted"
        /\ req[r].pc = "done" /\ req[r].resp = Redirect
        /\ req[r].codeInfo = NoInfo
        /\ [price_rule_id |-> req[r].priceRuleId, code |-> req[r].code] \in codes
        /\ offers[req[r].id].status = "accepted"
        /\ offers[req[r].id].discount_code = NoText
        /\ Len(req[r].mails) = 1

----------------------------------------------------------------------------
(* C7 *)

\* C7: no step of a create-code request changes the store, except the store
\* write that follows its two successful platform calls: unless the write
\* itself fails (and then changes nothing) it sets the
\* code, the rule id and the expiry of its offer to the code and the rule the
\* platform created for it, and leaves the offer's other columns (its status)
\* and every other offer as they are.
C7_RetryStoresCode ==
    [][\A r \in Reqs :
        (req'[r].kind = "code" /\ Steps(r))
        => IF req[r].kind = "code" /\ req[r].pc = "store" /\ req'[r].codeInfo # NoInfo
           THEN /\ offers' = [offers EXCEPT
                       ![req[r].id].discount_code = req[r].code,
                       ![req[r].id].price_rule_id = req[r].priceRuleId,
                       ![req[r].id].discount_expires_at = req[r].endsAt]
                /\ req[r].code # NoText /\ req[r].endsAt # NullTime
                /\ req[r].priceRuleId \in 1..Len(rules)
                /\ rules[req[r].priceRuleId].offer = req[r].id
                /\ [price_rule_id |-> req[r].priceRuleId, code |-> req[r].code] \in codes
                /\ req'[r].pc = "done" /\ req'[r].resp = Redirect
           ELSE offers' = offers
    ]_vars

\* an accept failed at a platform call and left the offer accepted without a
\* code; the create-code request after it stored one, beside another offer
C7_Witness ==
    \E q, r \in Reqs :
        /\ req[q].kind = "status" /\ req[q].val = "accepted"
        /\ req[q].pc = "done" /\ req[q].calls >= 1 /\ req[q].codeInfo = NoInfo
        /\ req[r].kind = "code" /\ req[r].id = req[q].id /\ req[r].pc = "done"
        /\ req[r].row.status = "accepted" /\ req[r].row.discount_code = NoText
        /\ req[r].codeInfo.code # NoText
        /\ offers[req[r].id].status = "accepted"
        /\ DiscountFields(offers[req[r].id])
             = <<req[r].code, req[r].priceRuleId, req[r].endsAt>>

----------------------------------------------------------------------------
(* C8 *)

\* C8: an authorized status request for an existing offer with a value among
\* open, accepted, declined, expired is not refused, whatever the offer's
\* status, and its status write sets the offer's status to the value and
\* changes nothing else in the store.
C8_AnyStatusFromAny ==
    [][\A r \in Reqs :
        /\ ( /\ req[r].kind = "none" /\ req'[r].kind = "status"
             /\ req'[r].key = cfg.admin_key /\ req'[r].val \in STATUSES
             /\ req'[r].id \in 1..Len(offers) )
           => req'[r].pc = "update" /\ req'[r].row = offers[req'[r].id]
        /\ ( /\ req[r].kind = "status" /\ req[r].pc = "update" /\ Steps(r)
             /\ req'[r].resp.status # 500 )
           => offers' = [offers EXCEPT ![req[r].id].status = req[r].val]
    ]_vars

\* an open offer was declined and then, declined, accepted
C8_Witness ==
    \E q, r \in Reqs :
        /\ req[q].kind = "status" /\ req[q].row.status = "open"
        /\ req[q].val = "declined" /\ req[q].pc = "done" /\ req[q].resp = Redirect
        /\ req[r].kind = "status" /\ req[r].row.status = "declined"
        /\ req[r].val = "accepted" /\ req[r].pc = "done" /\ req[r].resp = Redirect
        /\ req[r].id = req[q].id /\ offers[req[r].id].status = "accepted"

----------------------------------------------------------------------------
(* C9 *)

\* C9: a status request with value open or expired makes no platform call and
\* attempts no mail, and a step of it changes nothing but, at its status
\* write, the status of its offer.
C9_OpenExpiredOnlyStatus ==
    [][\A r \in Reqs :
        ( /\ req'[r].kind = "status" /\ req'[r].val \in {"open", "expired"}
          /\ Steps(r) )
        => /\ req'[r].calls = 0 /\ req'[r].mails = << >>
           /\ req'[r].pc \in {"update", "done"}
           /\ rules' = rules /\ codes' = codes
           /\ \/ offers' = offers
              \/ /\ req[r].pc = "update"
                 /\ offers' = [offers EXCEPT ![req[r].id].status = req[r].val]
    ]_vars

\* with a mailer configured, an offer that carries a code was set to expired:
\* it keeps its code, and the request sent nothing
C9_Witness ==
    \E r \in Reqs :
        /\ cfg.mailer
        /\ req[r].kind = "status" /\ req[r].val = "expired"
        /\ req[r].pc = "done" /\ req[r].resp = Redirect
        /\ req[r].row.status = "accepted" /\ req[r].row.discount_code # NoText
        /\ offers[req[r].id].status = "expired"
        /\ DiscountFields(offers[req[r].id]) = DiscountFields(req[r].row)
        /\ req[r].mails = << >>

----------------------------------------------------------------------------
(* C10 *)

\* the status request q has written its status
Written(q) ==
    /\ q.kind = "status"
    /\ q.pc \in {"rule", "dcode", "store", "mail"} \/ (q.pc = "done" /\ q.resp = Redirect)

\* what C10 says of the requests that have written, a mailer being there or not
Notifies(mailerThere) ==
    \A r \in Reqs :
        Written(req'[r])
        => /\ req'[r].val = "declined"
                => /\ req'[r].calls = 0
                   /\ mailerThere
                        => req'[r].mails = << [kind |-> "declined",
                                               to |-> req'[r].row.email,
                                               code |-> NoText] >>
                   /\ Steps(r)
                        => /\ rules' = rules /\ codes' = codes
                           /\ Len(offers') = Len(offers)
                           /\ \A i \in 1..Len(offers) :
                                 /\ DiscountFields(offers'[i]) = DiscountFields(offers[i])
                                 /\ DraftFields(offers'[i]) = DraftFields(offers[i])
           /\ req'[r].val = "accepted"
                => IF req'[r].pc \in {"rule", "dcode", "store"}
                   THEN req'[r].mails = << >>
                   ELSE mailerThere
                          => /\ Len(req'[r].mails) = 1
                             /\ req'[r].mails[1].kind = "accepted"
                             /\ req'[r].mails[1].to = req'[r].row.email

\* C10 as claimed: a decline attempts one decline mail without a code, makes
\* no platform call and leaves the discount and draft columns; an accept
\* attempts one acceptance mail, after its provisioning attempt.
C10_TransitionNotifies == [][Notifies(TRUE)]_vars

\* C10 amended: the same, the mails being attempted when a mailer is configured.
C10_TransitionNotifiesWithMailer == [][Notifies(cfg.mailer)]_vars

\* with a mailer, an offer that carries a code was declined: one decline mail
\* without the code; and its accept had sent the one acceptance mail
C10_Witness ==
    \E q, r \in Reqs :
        /\ cfg.mailer
        /\ req[q].kind = "status" /\ req[q].val = "accepted" /\ req[q].pc = "done"
        /\ req[q].calls = 2 /\ Len(req[q].mails) = 1
        /\ req[q].mails[1].code = req[q].codeInfo.code /\ req[q].codeInfo.code # NoText
        /\ req[r].kind = "status" /\ req[r].val = "declined" /\ req[r].pc = "done"
        /\ req[r].id = req[q].id /\ req[r].row.discount_code # NoText
        /\ req[r].mails = << [kind |-> "declined", to |-> req[r].row.email,
                               code |-> NoText] >>
        /\ DiscountFields(offers[req[r].id]) = DiscountFields(req[r].row)

----------------------------------------------------------------------------
(* C11 *)

\* the minor units a price rule's value string stands for
MinorUnits(value) == value.amount.units * 100 + value.amount.hundredths

\* the provisioning of r is at or past its price-rule request
RuleRequested(q) == Provisions(q) /\ q.pc \in {"rule", "dcode", "store"}

\* C11: every price rule requested for an offer, and every one created, takes
\* a fixed amount off that is exactly the listed price minus the offered price
\* of the offer in minor units, more than 0, can be used once, once per
\* customer, and is entitled to the one variant of the offer.
C11_RuleIsTheDifference ==
    /\ \A r \in Reqs :
          RuleRequested(req[r])
          => /\ req[r].row.price_cents - req[r].row.offer_cents > 0
             /\ req[r].row.price_cents = offers[req[r].id].price_cents
             /\ req[r].row.offer_cents = offers[req[r].id].offer_cents
             /\ req[r].row.variant_id = offers[req[r].id].variant_id
    /\ \A k \in 1..Len(rules) :
          LET o == offers[rules[k].offer]
          IN  /\ rules[k].value_type = "fixed_amount"
              /\ rules[k].value.sign = "-"
              /\ rules[k].value.amount.hundredths \in 0..99
              /\ MinorUnits(rules[k].value) = o.price_cents - o.offer_cents
              /\ MinorUnits(rules[k].value) > 0
              /\ rules[k].usage_limit = 1
              /\ rules[k].once_per_customer
              /\ rules[k].target_selection = "entitled"
              /\ Cardinality(rules[k].entitled_variant_ids) = 1
              /\ \A n \in rules[k].entitled_variant_ids :
                    /\ n > 0
                    /\ \E from \in 1..Len(o.variant_id) :
                          /\ \A j \in from..Len(o.variant_id) : IsDigit(o.variant_id[j])
                          /\ from > 1 => ~IsDigit(o.variant_id[from - 1])
                          /\ n = DigitsValue(o.variant_id, from, 0)

\* the offer of 50.00 on variant v7 listed at 100.00 has its rule: 50.00 off,
\* usable once, entitled to variant 7
C11_Witness ==
    \E k \in 1..Len(rules) :
        /\ offers[rules[k].offer].price_cents = 10000
        /\ offers[rules[k].offer].offer_cents = 5000
        /\ rules[k].value = [sign |-> "-", amount |-> [units |-> 50, hundredths |-> 0]]
        /\ rules[k].usage_limit = 1 /\ rules[k].once_per_customer
        /\ rules[k].entitled_variant_ids = {7}

----------------------------------------------------------------------------
(* C12 *)

\* the variant id ends in no digit
NoNumericId(variant_id) == variant_id = <<>> \/ ~IsDigit(variant_id[Len(variant_id)])

\* the offers C12 is about
NotProvisionable(o) ==
    \/ o.price_cents = 0
    \/ o.offer_cents >= o.price_cents
    \/ NoNumericId(o.variant_id)

\* C12: an offer whose listed price is missing or zero, or whose offered price
\* is at or above its listed price, or whose variant id ends in no digits,
\* keeps its discount code, rule id and expiry empty and has no price rule on
\* the platform; every accept or create-code request that read it made no
\* platform call, is at no platform call, and has no code to show.
C12_PreconditionsFailBeforeAnyCall ==
    \A i \in 1..Len(offers) :
        NotProvisionable(offers[i])
        => /\ DiscountFields(offers[i]) = <<NoText, NullId, NullTime>>
           /\ \A k \in 1..Len(rules) : rules[k].offer # i
           /\ \A r \in Reqs :
                 (Provisions(req[r]) /\ req[r].row # NoRow /\ req[r].id = i)
                 => /\ req[r].calls = 0
                    /\ req[r].pc \in {"update", "mail", "done"}
                    /\ req[r].codeInfo = NoInfo
                    /\ req[r].priceRuleId = NullId

\* the offer of 2.00 on a variant listed at 1.00 was accepted: the accept was
\* redirected after no platform call, and the create-code request after it too
C12_Witness ==
    \E q, r \in Reqs :
        /\ req[q].kind = "status" /\ req[q].val = "accepted"
        /\ req[r].kind = "code" /\ req[q].id = req[r].id
        /\ \A x \in {q, r} :
              /\ req[x].pc = "done" /\ req[x].resp = Redirect /\ req[x].calls = 0
              /\ req[x].row.price_cents = 100 /\ req[x].row.offer_cents = 200
        /\ offers[req[q].id].status = "accepted"
        /\ DiscountFields(offers[req[q].id]) = <<NoText, NullId, NullTime>>
        /\ rules = << >>

----------------------------------------------------------------------------
(* C13 *)

\* a decimal amount given in thousandths, rounded half away from zero to
\* hundredths
HalfAway(milli) ==
    IF milli >= 0 THEN (milli + 5) \div 10 ELSE 0 - ((5 - milli) \div 10)

\* q is a submission that reached the check of the amount
ReachedAmount(q) ==
    q.kind = "offer" /\ ValidationError(q.in) \in {"", "Offer required"}

\* C13: a submission that reaches the check of the amount is rejected as an
\* invalid offer amount when the amount does not parse or rounds, half away
\* from zero at two decimal places, to 0 or less; otherwise the offered price
\* of its row is the amount so rounded, in minor units.
C13_RoundsHalfAwayFromZero ==
    \A r \in Reqs :
        ReachedAmount(req[r])
        => IF req[r].in.offer.nan \/ HalfAway(req[r].in.offer.milli) <= 0
           THEN req[r].resp = Response(400, "Offer required", NullId)
           ELSE /\ req[r].resp.status # 400
                /\ req[r].row.offer_cents = HalfAway(req[r].in.offer.milli)

----------------------------------------------------------------------------
(* C14 *)

\* the four checks, each on its own
OriginRefused(in) == cfg.allow # {} /\ in.origin \notin cfg.allow
EmailMalformed(in) == ~EmailOk(trim(in.email))
IdsMissing(in) == in.product_id = "" \/ in.variant_id = <<>>
AmountInvalid(in) == in.offer.nan \/ HalfAway(in.offer.milli) <= 0

\* the outcomes of the five checks
Outcomes ==
    { Response(403, "Forbidden origin", NullId),
      Response(400, "Invalid email", NullId),
      Response(400, "Missing product/variant", NullId),
      Response(400, "Offer required", NullId),
      Response(429, "You already made an offer", NullId) }

\* q went on to the dedupe query
ReachedDedupe(q) ==
    q.kind = "offer" /\ (q.pc = "insert" \/ q.resp.status \in {200, 429, 500})

\* C14: a submission is answered with the outcome of the first check it fails
\* in the order origin, email, identifiers, amount, whatever later checks it
\* fails too; the five outcomes differ from each other; and a submission that
\* went on to the dedupe query, or to the insert, fails none of the four checks.
C14_FirstFailingCheckAnswers ==
    /\ Cardinality(Outcomes) = 5
    /\ \A r \in Reqs :
          req[r].kind = "offer"
          => LET in == req[r].in
                 resp == req[r].resp
             IN  /\ OriginRefused(in)
                       => resp = Response(403, "Forbidden origin", NullId)
                 /\ (~OriginRefused(in) /\ EmailMalformed(in))
                       => resp = Response(400, "Invalid email", NullId)
                 /\ (~OriginRefused(in) /\ ~EmailMalformed(in) /\ IdsMissing(in))
                       => resp = Response(400, "Missing product/variant", NullId)
                 /\ ( /\ ~OriginRefused(in) /\ ~EmailMalformed(in)
                      /\ ~IdsMissing(in) /\ AmountInvalid(in) )
                       => resp = Response(400, "Offer required", NullId)
                 /\ ReachedDedupe(req[r])
                       => /\ ~OriginRefused(in) /\ ~EmailMalformed(in)
                          /\ ~IdsMissing(in) /\ ~AmountInvalid(in)
                 /\ (resp.status \in {403, 400}) => req[r].pc = "done"
                 /\ resp.status = 429
                       => \E i \in 1..Len(offers) : SamePair(offers[i], req[r].row)

\* with an allow-list, a submission failing all four checks was answered
\* with the forbidden origin; one from an allowed origin failing the other
\* three with the invalid email
C14_Witness ==
    \E q, r \in Reqs :
        /\ req[q].kind = "offer" /\ req[r].kind = "offer"
        /\ OriginRefused(req[q].in) /\ EmailMalformed(req[q].in)
        /\ IdsMissing(req[q].in) /\ AmountInvalid(req[q].in)
        /\ req[q].resp = Response(403, "Forbidden origin", NullId)
        /\ ~OriginRefused(req[r].in) /\ EmailMalformed(req[r].in)
        /\ IdsMissing(req[r].in) /\ AmountInvalid(req[r].in)
        /\ req[r].resp = Response(400, "Invalid email", NullId)

----------------------------------------------------------------------------
(* C15 *)

\* q's insert succeeded
Inserted(q) == q.kind = "offer" /\ q.pc = "done" /\ q.resp.status = 200

\* C15: with a mailer configured, a submission whose insert succeeded has
\* handed the mailer a "received" mail to the buyer's email, the operations
\* mailbox being configured or not, and a mail to the operations mailbox
\* exactly when that mailbox is configured.
C15_BuyerIsNotifiedWithoutOpsMailbox ==
    \A r \in Reqs :
        (Inserted(req[r]) /\ cfg.mailer)
        => /\ \E k \in 1..Len(req[r].mails) :
                 /\ req[r].mails[k].kind = "received"
                 /\ req[r].mails[k].to = req[r].row.email
           /\ cfg.offer_to_email
                 <=> \E k \in 1..Len(req[r].mails) : req[r].mails[k].to = OpsMailbox

----------------------------------------------------------------------------
(* C16 *)

\* C16: the step in which the insert succeeds answers {ok:true,id} with the
\* id of the offer it added, while every mail it handed over is still
\* undelivered; and no later step of the submission (a delivery that
\* succeeds or fails) changes the response or the store.
C16_ResponseIgnoresDelivery ==
    [][\A r \in Reqs :
        /\ ( /\ req[r].kind = "offer" /\ req[r].pc = "insert"
             /\ Len(offers') = Len(offers) + 1 /\ req'[r].pc = "done" )
           => /\ req'[r].resp = Response(200, "", Len(offers'))
              /\ offers'[Len(offers')].id = Len(offers')
              /\ SamePair(offers'[Len(offers')], req[r].row)
              /\ Len(req'[r].delivery) = Len(req'[r].mails)
              /\ \A k \in 1..Len(req'[r].delivery) : req'[r].delivery[k] = "pending"
        /\ (req[r].kind = "offer" /\ req[r].pc = "done" /\ Steps(r))
           => /\ req'[r].resp = req[r].resp /\ req'[r].pc = "done"
              /\ offers' = offers
    ]_vars

\* a submission answered {ok:true,id} whose mail to the operations mailbox
\* failed and whose mail to the buyer has not settled: its offer is stored
C16_Witness ==
    \E r \in Reqs :
        /\ Inserted(req[r]) /\ req[r].resp.id \in 1..Len(offers)
        /\ req[r].delivery = <<"failed", "pending">>
        /\ req[r].mails[2].kind = "received"
        /\ offers[req[r].resp.id].status = "open"
        /\ offers[req[r].resp.id].email = req[r].row.email

----------------------------------------------------------------------------
(* Vocabulary of the bundler's properties *)

\* the offers of q's email and shop that are accepted and not yet bundled
MatchingAt(store, q) ==
    { i \in 1..Len(store) :
        /\ store[i].email_norm = q.row.email_norm
        /\ store[i].shop_domain = q.row.shop_domain
        /\ store[i].status = "accepted"
        /\ store[i].draft_order_id = NullId }

\* the ids of a sequence of rows, and the offers of a draft order's line items
RowIds(rows) == {rows[k].id : k \in 1..Len(rows)}
ItemOffers(d) == {d.lineItems[k].OfferID : k \in 1..Len(d.lineItems)}

\* the offers whose draft columns a step changes
Marked == {i \in 1..Len(offers) : DraftFields(offers'[i]) # DraftFields(offers[i])}

\* r's query of the eligible offers is answered in this step
Collects(r) == req[r].kind = "draft" /\ req[r].pc = "collect" /\ Steps(r)

\* the bundle of q returned without an error
Bundled(q) ==
    /\ q.kind = "draft" /\ q.pc \in {"mail", "done"}
    /\ q.draftId # NullId /\ q.error = ""

----------------------------------------------------------------------------
(* C17 *)

\* C17: the rows a bundle works on are exactly the offers that, when its
\* query is answered, have its email and shop, are accepted and carry no
\* draft order id; when there are none it fails with "No accepted offers to
\* draft" and makes no platform call; the draft order it creates has line
\* items of those rows only, and its marker write marks those rows only.
C17_BundleTakesEligibleOnly ==
    [][\A r \in Reqs :
        /\ Collects(r)
           => /\ RowIds(req'[r].rows) = MatchingAt(offers, req[r])
              /\ \A k \in 1..Len(req'[r].rows) :
                    req'[r].rows[k] = offers[req'[r].rows[k].id]
              /\ MatchingAt(offers, req[r]) = {}
                    => /\ req'[r].error = "No accepted offers to draft"
                       /\ req'[r].pc = "done" /\ req'[r].calls = 0
              /\ offers' = offers /\ drafts' = drafts
        /\ (req[r].kind = "draft" /\ req[r].pc = "create" /\ req'[r].pc = "mark")
           => /\ Len(drafts') = Len(drafts) + 1
              /\ ItemOffers(drafts'[Len(drafts')]) \subseteq RowIds(req[r].rows)
        /\ (req[r].kind = "draft" /\ req[r].pc = "mark" /\ Steps(r))
           => Marked \subseteq RowIds(req[r].rows)
    ]_vars

\* a bundle made a draft order of one line item and marked that offer, beside
\* an accepted offer of another buyer or shop and an offer of the buyer that
\* is not accepted, both left unmarked
C17_Witness ==
    \E r \in Reqs :
        /\ Bundled(req[r])
        /\ Len(drafts[req[r].draftId].lineItems) = 1
        /\ \E i, j, k \in 1..Len(offers) :
              /\ ItemOffers(drafts[req[r].draftId]) = {i}
              /\ offers[i].draft_order_id = req[r].draftId
              /\ offers[j].status = "accepted" /\ offers[j].draft_order_id = NullId
              /\ ( \/ offers[j].email_norm # offers[i].email_norm
                   \/ offers[j].shop_domain # offers[i].shop_domain )
              /\ offers[k].status # "accepted" /\ offers[k].draft_order_id = NullId
              /\ offers[k].email_norm = offers[i].email_norm
              /\ offers[k].shop_domain = offers[i].shop_domain

----------------------------------------------------------------------------
(* C18 *)

\* r's query is answered after a bundle for the same email and shop returned
\* without an error
RunsAfterBundle(r) ==
    /\ Collects(r)
    /\ \E q \in Reqs \ {r} :
          /\ Bundled(req[q])
          /\ req[q].row.email_norm = req[r].row.email_norm
          /\ req[q].row.shop_domain = req[r].row.shop_domain

\* the second run ends at its query: no platform call, no draft order, no
\* offer changed
EndsAtQuery(r) ==
    /\ req'[r].pc = "done" /\ req'[r].resp = Redirect
    /\ req'[r].calls = 0 /\ req'[r].draftId = NullId
    /\ offers' = offers /\ drafts' = drafts

\* C18 as claimed: a bundle run after a successful one for the same email and
\* shop, with no status changed in between, fails with "No accepted offers to
\* draft", creates no draft order and changes no offer.
C18_SecondRunNothingToBundle ==
    [][\A r \in Reqs :
        RunsAfterBundle(r)
        => /\ req'[r].error = "No accepted offers to draft"
           /\ EndsAtQuery(r)
    ]_vars

\* C18 amended: such a run creates no draft order and changes no offer; it
\* fails with "No accepted offers to draft", unless the first run skipped
\* offers with an unresolvable variant id: those are still eligible, and the
\* run fails with "No valid line items from offers".
C18_SecondRunCreatesNoDraft ==
    [][\A r \in Reqs :
        RunsAfterBundle(r)
        => /\ EndsAtQuery(r)
           /\ \A i \in MatchingAt(offers, req[r]) : NoNumericId(offers[i].variant_id)
           /\ req'[r].error =
                 IF MatchingAt(offers, req[r]) = {}
                 THEN "No accepted offers to draft"
                 ELSE "No valid line items from offers"
    ]_vars

\* two runs for one email and shop: the first made the one draft order there
\* is, of two offers; the second found no accepted offers to draft
C18_Witness ==
    \E q, r \in Reqs :
        /\ Bundled(req[q]) /\ req[q].pc = "done" /\ Len(req[q].ids) = 2
        /\ req[r].kind = "draft" /\ req[r].pc = "done"
        /\ req[r].row.email_norm = req[q].row.email_norm
        /\ req[r].row.shop_domain = req[q].row.shop_domain
        /\ req[r].error = "No accepted offers to draft"
        /\ req[r].calls = 0
        /\ Len(drafts) = 1
        /\ \A k \in 1..2 : offers[req[q].ids[k]].draft_order_id = req[q].draftId

----------------------------------------------------------------------------
(* C19 *)

\* the rows of q whose variant id ends in digits
ResolvableRows(q) ==
    {q.rows[k].id : k \in {j \in 1..Len(q.rows) : ~NoNumericId(q.rows[j].variant_id)}}

\* C19: a bundle whose draft order the platform creates creates one order,
\* with one line item for each of its rows whose variant id resolves to a
\* numeric id and none for the others; its marker write sets the draft order
\* id to that order and the bundling timestamp to the time of the write on
\* exactly those offers, and leaves every other offer, the skipped rows
\* among them, as it is.
C19_OneLineItemPerResolvableOffer ==
    [][\A r \in Reqs :
        /\ (req[r].kind = "draft" /\ req[r].pc = "create" /\ req'[r].pc = "mark")
           => /\ Len(drafts') = Len(drafts) + 1
              /\ SubSeq(drafts', 1, Len(drafts)) = drafts
              /\ req'[r].draftId = Len(drafts')
              /\ LET d == drafts'[Len(drafts')]
                 IN  /\ ItemOffers(d) = ResolvableRows(req[r])
                     /\ Len(d.lineItems) = Cardinality(ResolvableRows(req[r]))
                     /\ Len(d.lineItems) >= 1
                     /\ \A k \in 1..Len(d.lineItems) :
                           /\ d.lineItems[k].quantity = 1
                           /\ d.lineItems[k].variantId > 0
              /\ offers' = offers
        /\ (req[r].kind = "draft" /\ req[r].pc = "mark" /\ req'[r].pc = "invoice")
           => /\ \A i \in 1..Len(offers) :
                    offers'[i] =
                      IF i \in ResolvableRows(req[r])
                      THEN [offers[i] EXCEPT !.draft_order_id = req[r].draftId,
                                             !.drafted_at = now]
                      ELSE offers[i]
              /\ req[r].draftId \in 1..Len(drafts)
              /\ ItemOffers(drafts[req[r].draftId]) = ResolvableRows(req[r])
              /\ drafts' = drafts
    ]_vars

\* three accepted offers of one buyer and shop, one of them on a variant
\* without a numeric id: one draft order of two line items, the two offers
\* marked with it and the third unmarked
C19_Witness ==
    \E r \in Reqs :
        /\ Bundled(req[r]) /\ Len(req[r].rows) = 3
        /\ Len(drafts) = 1 /\ Len(drafts[1].lineItems) = 2
        /\ \E i \in 1..3 :
              /\ NoNumericId(offers[i].variant_id)
              /\ DraftFields(offers[i]) = <<NullId, NullTime>>
              /\ \A j \in (1..3) \ {i} :
                    /\ offers[j].draft_order_id = 1 /\ offers[j].drafted_at = now
                    /\ j \in ItemOffers(drafts[1])

----------------------------------------------------------------------------
(* C20 *)

\* C20: a bundle whose query finds eligible offers, every one of them with a
\* variant id that resolves to no numeric id, fails with "No valid line
\* items from offers": it makes no platform call (no draft order is created,
\* no invoice requested) and marks no offer.
C20_NoValidLineItems ==
    [][\A r \in Reqs :
        ( /\ Collects(r)
          /\ MatchingAt(offers, req[r]) # {}
          /\ \A i \in MatchingAt(offers, req[r]) : NoNumericId(offers[i].variant_id) )
        => /\ req'[r].error = "No valid line items from offers"
           /\ req'[r].pc = "done" /\ req'[r].resp = Redirect
           /\ req'[r].calls = 0 /\ req'[r].draftId = NullId
           /\ req'[r].lineItems = << >>
           /\ drafts' = drafts /\ offers' = offers
    ]_vars

\* a bundle over two eligible offers, both on the variant without a numeric
\* id, failed: no draft order, no offer marked
C20_Witness ==
    \E r \in Reqs :
        /\ req[r].kind = "draft" /\ req[r].pc = "done"
        /\ req[r].error = "No valid line items from offers"
        /\ Len(req[r].rows) = 2 /\ req[r].calls = 0
        /\ drafts = << >>
        /\ \A i \in 1..Len(offers) : DraftFields(offers[i]) = <<NullId, NullTime>>

----------------------------------------------------------------------------
(* C21 *)

\* C21: no offer is a line item of more than one draft order on the
\* platform, whatever the order and the interleaving of the draft requests.
C21_OfferInOneDraftOnly ==
    \A a, b \in 1..Len(drafts) :
        a # b => ItemOffers(drafts[a]) \cap ItemOffers(drafts[b]) = {}

----------------------------------------------------------------------------
(* C22 *)

\* r's invoice request is answered in this step, with a failure: the draft
\* order's count of invoices sent stays as it was
InvoiceFails(r) ==
    /\ req[r].kind = "draft" /\ req[r].pc = "invoice" /\ Steps(r)
    /\ drafts' = drafts

\* C22: when the draft order was created and the offers were marked, and the
\* invoice request then fails, the bundle returns without an error the order
\* id, the number of line items and the presentment currency of the order;
\* the step changes no offer, so every bundled offer keeps its marker (the
\* id of this order, or of the order of an overlapping request that wrote
\* its marker later); and the request creates no second draft order.
C22_InvoiceFailureStillSucceeds ==
    [][\A r \in Reqs :
        InvoiceFails(r)
        => LET d == drafts[req[r].draftId]
           IN  /\ Bundled(req'[r]) /\ req'[r].pc = "done" /\ req'[r].resp = Redirect
               /\ req'[r].result.draftId = d.id
               /\ req'[r].result.count = Len(d.lineItems)
               /\ req'[r].result.count > 0
               /\ req'[r].result.presentmentCurrency = d.presentmentCurrencyCode
               /\ req'[r].result.email = d.email
               /\ offers' = offers
               /\ \A i \in ItemOffers(d) :
                     \/ DraftFields(offers'[i])[1] = d.id
                     \/ \E o \in Reqs \ {r} :
                           /\ req[o].kind = "draft"
                           /\ req[o].draftId = DraftFields(offers'[i])[1]
                           /\ i \in ItemOffers(drafts[req[o].draftId])
               /\ Len(drafts') = Len(drafts)
               /\ req'[r].calls = req[r].calls
    ]_vars

\* a bundle of two offers whose invoice was not sent has returned: one
\* draft order with two line items and no invoice, both offers marked with it
C22_Witness ==
    \E r \in Reqs :
        /\ Bundled(req[r]) /\ req[r].pc = "done"
        /\ Len(drafts) = 1 /\ drafts[1].invoices = 0
        /\ req[r].result = [draftId |-> 1, count |-> 2, email |-> EmailLower,
                            presentmentCurrency |-> "GBP"]
        /\ \A i \in ItemOffers(drafts[1]) : DraftFields(offers[i])[1] = 1
        /\ Cardinality(ItemOffers(drafts[1])) = 2

----------------------------------------------------------------------------
(* C30 *)

\* the errors a bundle ends in before its marker write
BundleErrors ==
    { "No accepted offers to draft", "No valid line items from offers",
      "Shopify GraphQL error", "Draft create failed" }

\* r's bundle ends in an error in this step
BundleFails(r) == req[r].kind = "draft" /\ req[r].error = "" /\ req'[r].error # ""

\* C30: the step in which a bundle ends in an error (nothing to bundle, no
\* valid line items, the draft order refused or answered without an id)
\* leaves the draft order id and the bundling timestamp of every offer as
\* they were, and the bundle has marked no offer before it; a step changes
\* those columns only when it is the marker write of a bundle to which the
\* platform has returned a draft order id, and that one write marks every
\* offer of the bundle's line items, and no other offer, with that id.
C30_ErrorLeavesOffersUnmarked ==
    [][/\ \A r \in Reqs :
            BundleFails(r)
            => /\ offers' = offers
               /\ req'[r].pc = "done"
               /\ req'[r].error \in BundleErrors
                  => /\ req'[r].draftId = NullId
                     /\ req[r].pc \in {"collect", "create"}
               /\ \A i \in 1..Len(offers) :
                     req[r].draftId = NullId
                     \/ offers[i].draft_order_id # req[r].draftId
       /\ Marked # {}
          => \E r \in Reqs :
                /\ req[r].kind = "draft" /\ req[r].pc = "mark"
                /\ req'[r].pc = "invoice" /\ req'[r].error = ""
                /\ req[r].draftId \in 1..Len(drafts)
                /\ Marked = ItemOffers(drafts[req[r].draftId])
                /\ \A i \in Marked :
                      DraftFields(offers'[i]) = <<req[r].draftId, now>>
    ]_vars

\* a bundle of two eligible offers ended because the platform answered the
\* draft order's creation without an id: no order, both offers unmarked
C30_Witness ==
    \E r \in Reqs :
        /\ req[r].kind = "draft" /\ req[r].pc = "done"
        /\ req[r].error = "Draft create failed"
        /\ Len(req[r].lineItems) = 2 /\ req[r].draftId = NullId
        /\ drafts = << >>
        /\ \A i \in 1..Len(offers) : DraftFields(offers[i]) = <<NullId, NullTime>>

----------------------------------------------------------------------------
(* C23 *)

\* the presentment currency of the shops: the entry of the market map for
\* the .de shop when there is one, yen for the .jp shops in either case of
\* the letters, pounds otherwise
PresentmentOf(shop) ==
    IF shop = ShopDe /\ cfg.market_map # << >> THEN "EUR"
    ELSE IF shop \in {ShopJp, ShopJpUpper} THEN "JPY"
    ELSE "GBP"

\* C23: in every draft order the bundler created, each line item has
\* quantity 1, a price override of its offer's offer_cents / 100 in two
\* decimals, the presentment currency of the offer's shop as currency code,
\* which is also the order's presentment currency and that of every other
\* line item, whatever currency the offer stores, and the offer's id as
\* attribute.
C23_LineItemsInPresentmentCurrency ==
    \A n \in 1..Len(drafts) :
        LET d == drafts[n]
        IN  /\ d.lineItems # << >>
            /\ \A k \in 1..Len(d.lineItems) :
                  LET item == d.lineItems[k]
                  IN  /\ item.OfferID \in 1..Len(offers)
                      /\ item.quantity = 1
                      /\ item.priceOverride.amount.hundredths \in 0..99
                      /\ 100 * item.priceOverride.amount.units
                           + item.priceOverride.amount.hundredths
                         = offers[item.OfferID].offer_cents
                      /\ item.priceOverride.currencyCode
                         = PresentmentOf(offers[item.OfferID].shop_domain)
                      /\ item.priceOverride.currencyCode = d.presentmentCurrencyCode
                      /\ \A j \in 1..Len(d.lineItems) :
                            j # k => d.lineItems[j].OfferID # item.OfferID

\* a draft order in yen for the shop stored as s.JP, of the offer of 0.50
\* stored in GBP and the offer of 19.99 stored in USD
C23_Witness ==
    /\ Len(drafts) = 1
    /\ drafts[1].presentmentCurrencyCode = "JPY"
    /\ Len(drafts[1].lineItems) = 2
    /\ \A i \in 1..2 : offers[i].shop_domain = ShopJpUpper
    /\ offers[1].currency = "GBP" /\ offers[2].currency = "USD"
    /\ drafts[1].lineItems[2].OfferID = 2
    /\ drafts[1].lineItems[2].priceOverride =
          [amount |-> [units |-> 19, hundredths |-> 99], currencyCode |-> "JPY"]
    /\ drafts[1].lineItems[1].priceOverride =
          [amount |-> [units |-> 0, hundredths |-> 50], currencyCode |-> "JPY"]

----------------------------------------------------------------------------
(* C24 *)

\* r arrives in this step at an admin route with a key that is not the
\* configured one
Refused(r) ==
    /\ req[r] = Idle
    /\ req'[r].kind \in {"list", "status", "code", "draft"}
    /\ req'[r].key # cfg.admin_key

\* C24: an admin request (list, status, create-code, draft) with a key other
\* than the configured one is answered 403 "Forbidden", the same for every
\* route, id and value; it reads no offer, lists none, changes no offer,
\* makes no platform call and hands no mail to the mailer, and it takes no
\* step after its answer.
C24_WrongKeyForbiddenNoEffect ==
    [][\A r \in Reqs :
        /\ Refused(r)
           => /\ req'[r].resp = Response(403, "Forbidden", NullId)
              /\ req'[r].pc = "done"
              /\ req'[r].calls = 0 /\ req'[r].mails = << >>
              /\ req'[r].row = NoRow
              /\ req'[r].kind = "list" => req'[r].page = {}
              /\ offers' = offers /\ rules' = rules /\ codes' = codes
              /\ drafts' = drafts
        /\ ( /\ req[r].kind \in {"list", "status", "code", "draft"}
             /\ req[r].key # cfg.admin_key )
           => req'[r] = req[r]
    ]_vars

\* an accept of offer 1 under another key and a draft request for it
\* without a key were refused: the offer is as it was, nothing was
\* provisioned or bundled
C24_Witness ==
    \E r, q \in Reqs :
        /\ req[r].kind = "status" /\ req[r].key = "x" /\ req[r].id = 1
        /\ req[r].val = "accepted" /\ req[r].resp.status = 403
        /\ req[q].kind = "draft" /\ req[q].key = "" /\ req[q].id = 1
        /\ req[q].resp = req[r].resp
        /\ offers[1] = Stored(1, Shapes[1])
        /\ rules = << >> /\ codes = {} /\ drafts = << >>

----------------------------------------------------------------------------
(* C25 *)

\* the language each declared tag is to resolve to: exact matches, then
\* primary subtags, then the base language
ExpectedLanguage ==
    [ t \in DeclaredLanguages |->
        CASE t = LangEn -> LangEn
          [] t = LangDe -> LangDe
          [] t = LangPtPt -> LangPtPt
          [] t = LangDeAt -> LangDe
          [] t = LangEnGb -> LangEn
          [] t = LangPtBr -> BaseLanguage
          [] t = LangPt -> BaseLanguage
          [] t = LangFrCa -> BaseLanguage
          [] t = NoText -> BaseLanguage ]

----------------------------------------------------------------------------
(* C26 *)

\* C26: every stored offer has a status among open, accepted, declined and
\* expired, an offered price that is a positive integer number of minor
\* units and a listed price that is not negative; and an insert adds an
\* open offer with an empty discount code, rule id, expiry, draft order id
\* and bundling timestamp.
C26_StoredOffersAreWellFormed ==
    [][/\ \A i \in 1..Len(offers') :
            /\ offers'[i].status \in STATUSES
            /\ offers'[i].offer_cents \in Nat \ {0}
            /\ offers'[i].offer_cents # Infinity
            /\ offers'[i].price_cents >= 0
       /\ Len(offers') > Len(offers)
          => LET o == offers'[Len(offers')]
             IN  /\ Len(offers') = Len(offers) + 1
                 /\ o.status = "open"
                 /\ DiscountFields(o) = <<NoText, NullId, NullTime>>
                 /\ DraftFields(o) = <<NullId, NullTime>>
    ]_vars

----------------------------------------------------------------------------
(* C27 *)

\* q is an accept transition
Accepting(q) == q.kind = "status" /\ q.val = "accepted"

\* the positions of an accept transition, in their order
AcceptOrder ==
    [update |-> 1, rule |-> 2, dcode |-> 3, store |-> 4, mail |-> 5, done |-> 6]

\* C27: an accept transition goes through its steps in this order: the status
\* write; then the request of the price rule; then, the rule made, the
\* request of the discount code; then, the code made, the write of the
\* discount fields; then the acceptance mail, handed to the mailer only when
\* the provisioning has returned or failed; then the redirect, after which
\* it does nothing. No call is made before the status is written, and when
\* the status write fails the transition ends with no call and no mail.
C27_AcceptStepsInOrder ==
    [][\A r \in Reqs :
        (Accepting(req[r]) /\ Steps(r))
        => /\ AcceptOrder[req'[r].pc] > AcceptOrder[req[r].pc]
           /\ req[r].pc = "update"
              => /\ req[r].calls = 0 /\ req[r].mails = << >>
                 /\ \/ /\ offers' = StatusWrite(offers, req[r].id, "accepted")
                       /\ req'[r].calls \in {0, 1}
                    \/ /\ offers' = offers
                       /\ req'[r].resp = Response(500, "DB error", NullId)
                       /\ req'[r].pc = "done"
                       /\ req'[r].calls = 0 /\ req'[r].mails = << >>
           /\ req'[r].calls > req[r].calls
              => \/ req[r].pc = "update" /\ req'[r].pc = "rule" /\ req'[r].calls = 1
                 \/ /\ req[r].pc = "rule" /\ req'[r].pc = "dcode" /\ req'[r].calls = 2
                    /\ Len(rules') = Len(rules) + 1
                    /\ req'[r].priceRuleId = Len(rules')
           /\ codes' # codes
              => /\ req[r].pc = "dcode" /\ req[r].priceRuleId \in 1..Len(rules)
                 /\ req'[r].pc = "store"
           /\ DiscountFields(offers'[req[r].id]) # DiscountFields(offers[req[r].id])
              => /\ req[r].pc = "store" /\ req[r].calls = 2
                 /\ req[r].priceRuleId \in 1..Len(rules)
                 /\ \E c \in codes : /\ c.code = req[r].code
                                     /\ c.price_rule_id = req[r].priceRuleId
           /\ req'[r].mails # req[r].mails
              => /\ req'[r].pc = "mail"
                 /\ Len(req'[r].mails) = 1 /\ req'[r].mails[1].kind = "accepted"
                 /\ req'[r].calls = req[r].calls
                 /\ rules' = rules /\ codes' = codes
           /\ req'[r].resp # req[r].resp => req'[r].pc = "done"
    ]_vars

\* an accept transition went through every step: its status write, the rule,
\* the code, the write of the discount fields and the mail with the code;
\* and another ended at its status write, which failed
C27_Witness ==
    \E r, q \in Reqs :
        /\ Accepting(req[r]) /\ req[r].pc = "done" /\ req[r].resp = Redirect
        /\ req[r].calls = 2 /\ Len(req[r].mails) = 1
        /\ req[r].mails[1].code = offers[req[r].id].discount_code
        /\ offers[req[r].id].discount_code # NoText
        /\ Accepting(req[q]) /\ req[q].resp = Response(500, "DB error", NullId)
        /\ req[q].calls = 0 /\ req[q].mails = << >>

----------------------------------------------------------------------------
(* C28 *)

\* the offer of q was accepted when q started to provision for it: q is the
\* accept transition that has just written the status, or a create-code
\* request that read the offer as accepted
AcceptedAtStart(q) ==
    \/ q.kind = "status" /\ q.val = "accepted"
    \/ q.kind = "code" /\ q.row.status = "accepted"

\* C28: a discount is provisioned only for an accepted offer: every request
\* that has asked the platform for a price rule started with its offer
\* accepted, and every offer that carries a discount code got it from such a
\* request.
C28_CodeOnlyForAccepted ==
    /\ \A r \in Reqs :
          (req[r].kind \in {"status", "code"} /\ req[r].calls > 0)
          => AcceptedAtStart(req[r])
    /\ \A i \in 1..Len(offers) :
          offers[i].discount_code # NoText
          => \E r \in Reqs :
                /\ req[r].kind \in {"status", "code"} /\ req[r].id = i
                /\ req[r].code = offers[i].discount_code
                /\ AcceptedAtStart(req[r])

----------------------------------------------------------------------------
(* C29 *)

\* the answers of a rejected submission
Rejections ==
    { Response(403, "Forbidden origin", NullId),
      Response(400, "Invalid email", NullId),
      Response(400, "Missing product/variant", NullId),
      Response(400, "Offer required", NullId),
      Response(429, "You already made an offer", NullId),
      Response(500, "DB error", NullId),
      Response(500, "Insert failed", NullId) }

\* r is answered in this step
Answered(r) == req[r].pc # "done" /\ req'[r].kind = "offer" /\ req'[r].pc = "done"

\* C29: the step that answers a submission with a rejection (forbidden
\* origin, invalid email, missing identifiers, invalid amount, duplicate
\* recent offer, store error) leaves the store as it is and hands no mail to
\* the mailer; a submission is answered with a rejection or with
\* {ok:true,id}, and the store grows only in the step that answers
\* {ok:true,id}, by exactly the one offer of that id, its other offers
\* unchanged.
C29_RejectedSubmissionHasNoEffect ==
    [][/\ \A r \in Reqs :
            Answered(r)
            => \/ /\ req'[r].resp \in Rejections
                  /\ offers' = offers
                  /\ req'[r].mails = << >> /\ req'[r].delivery = << >>
               \/ /\ req'[r].resp = Response(200, "", Len(offers) + 1)
                  /\ Len(offers') = Len(offers) + 1
                  /\ SubSeq(offers', 1, Len(offers)) = offers
                  /\ offers'[Len(offers')].id = Len(offers) + 1
       /\ offers' # offers
          => Cardinality({r \in Reqs : Answered(r) /\ req'[r].resp.status = 200}) = 1
       /\ \A r \in Reqs :
            (req[r].kind = "offer" /\ req[r].pc = "done")
            => /\ req'[r].resp = req[r].resp /\ req'[r].mails = req[r].mails
               /\ req[r].resp.status # 200 => req'[r] = req[r]
    ]_vars

\* with mailer and operations mailbox configured, one submission was stored
\* and its two mails handed over, and a duplicate of it and a submission the
\* store failed were rejected: one offer, no mail of theirs
C29_Witness ==
    /\ cfg.mailer /\ cfg.offer_to_email
    /\ Len(offers) = 1
    /\ \E a, b \in Reqs :
          /\ req[a].kind = "offer" /\ req[a].resp = Response(200, "", 1)
          /\ Len(req[a].mails) = 2
          /\ req[b].kind = "offer" /\ req[b].mails = << >>
          /\ req[b].resp \in { Response(429, "You already made an offer", NullId),
                               Response(500, "Insert failed", NullId) }

----------------------------------------------------------------------------
(* C31 *)

\* all of the fields are empty, or none of them is
AllOrNone(fields, empty) ==
    \/ \A k \in 1..Len(fields) : fields[k] = empty[k]
    \/ \A k \in 1..Len(fields) : fields[k] # empty[k]

\* C31: in every state the discount code, rule id and expiry of an offer are
\* all empty or all populated, and so are its draft order id and bundling
\* timestamp, whichever step of a provisioning or of a bundle has failed.
C31_FieldsAllOrNone ==
    \A i \in 1..Len(offers) :
        /\ AllOrNone(DiscountFields(offers[i]), <<NoText, NullId, NullTime>>)
        /\ AllOrNone(DraftFields(offers[i]), <<NullId, NullTime>>)

\* a provisioning for offer 2 made its price rule and then failed, and a
\* bundle marked both offers: offer 2 has none of the discount fields and
\* both draft fields
C31_Witness ==
    /\ \E n \in 1..Len(rules) : rules[n].offer = 2
    /\ \E r \in Reqs : /\ req[r].kind = "code" /\ req[r].id = 2
                        /\ req[r].pc = "done" /\ req[r].codeInfo = NoInfo
    /\ DiscountFields(offers[2]) = <<NoText, NullId, NullTime>>
    /\ \A k \in 1..2 : DraftFields(offers[2])[k] # <<NullId, NullTime>>[k]
    /\ \E r \in Reqs : Bundled(req[r])

----------------------------------------------------------------------------
(* C32 *)

\* C32: the platform holds at most one price rule for an offer, whatever
\* accept and create-code requests were made for it and however their
\* provisioning attempts ended.
C32_OnePriceRulePerOffer ==
    \A a, b \in 1..Len(rules) : a # b => rules[a].offer # rules[b].offer

----------------------------------------------------------------------------
(* C33 *)

\* C33: an offer that carries a draft order id is in no draft request's
\* query answered from then on, so no such request puts it into a draft
\* order or writes its marker; a status transition, to open and back to
\* accepted too, writes no draft column; the offer that was bundled before
\* any of the requests keeps its draft order id and bundling timestamp and
\* is in no other draft order.
C33_MarkedOfferIsNotRebundled ==
    [][/\ \A r \in Reqs :
            (req[r].kind = "status" /\ Steps(r))
            => /\ drafts' = drafts
               /\ \A i \in 1..Len(offers) :
                     DraftFields(offers'[i]) = DraftFields(offers[i])
       /\ \A r \in Reqs, i \in 1..Len(offers) :
            (Collects(r) /\ offers[i].draft_order_id # NullId)
            => /\ i \notin RowIds(req'[r].rows)
               /\ \A k \in 1..Len(req'[r].lineItems) :
                     req'[r].lineItems[k].OfferID # i
       /\ Len(drafts') > Len(drafts)
          => \E r \in Reqs :
                /\ req[r].kind = "draft" /\ req[r].pc = "create" /\ Steps(r)
                /\ ItemOffers(drafts'[Len(drafts')]) \subseteq RowIds(req[r].rows)
       /\ \A i \in Marked :
            \E r \in Reqs :
                /\ req[r].kind = "draft" /\ req[r].pc = "mark" /\ Steps(r)
                /\ i \in RowIds(req[r].rows)
       /\ DraftFields(offers'[1]) = <<1, 0>>
       /\ \A n \in 2..Len(drafts') : 1 \notin ItemOffers(drafts'[n])
    ]_vars

\* the bundled offer was reopened and then accepted again, and a draft
\* request made after that bundled the buyer's other offer alone: the first
\* offer is accepted, still marked with its order and time, and in no other
\* draft order
C33_Witness ==
    \E a, b, c \in Reqs :
        /\ a < b /\ b < c
        /\ req[a].kind = "status" /\ req[a].id = 1 /\ req[a].val = "open"
        /\ req[b].kind = "status" /\ req[b].id = 1 /\ req[b].val = "accepted"
        /\ req[b].row.status = "open" /\ req[b].pc = "done"
        /\ Bundled(req[c]) /\ req[c].row.id = 1 /\ req[c].row.status = "accepted"
        /\ RowIds(req[c].rows) = {2}
        /\ offers[1].status = "accepted" /\ DraftFields(offers[1]) = <<1, 0>>
        /\ Len(drafts) = 2 /\ ItemOffers(drafts[2]) = {2}

----------------------------------------------------------------------------
(* C34 *)

\* r arrives in this step at the status, create-code or draft route with
\* the configured key
Authorized(r) ==
    /\ req[r] = Idle
    /\ req'[r].kind \in {"status", "code", "draft"}
    /\ req'[r].key = cfg.admin_key

\* the step is the whole of r, which changes nothing, calls nothing and
\* mails nothing
Rejected(r, response) ==
    /\ req'[r].resp = response /\ req'[r].pc = "done"
    /\ req'[r].row = NoRow /\ req'[r].calls = 0 /\ req'[r].mails = << >>
    /\ offers' = offers /\ rules' = rules /\ codes' = codes /\ drafts' = drafts

\* C34: a status request with the configured key and a value that is none
\* of open, accepted, declined, expired is answered 400, whether its offer
\* exists or not; a status request with a valid value, a create-code request
\* and a draft request with the configured key for an id of no offer are
\* answered 404; both without a change of an offer, a platform call or a
\* mail, and without a later step. A status request with no value is a
\* request for open: it is not refused, and its status write sets open.
C34_BadValueAndMissingOfferRejected ==
    [][\A r \in Reqs :
        /\ Authorized(r)
           => /\ req'[r].kind = "status"
                 => /\ req'[r].given = "" => req'[r].val = "open"
                    /\ req'[r].given # "" => req'[r].val = req'[r].given
              /\ (req'[r].kind = "status" /\ req'[r].val \notin STATUSES)
                 => Rejected(r, Response(400, "Bad status", NullId))
              /\ ( /\ req'[r].kind = "status" => req'[r].val \in STATUSES
                   /\ req'[r].id \notin 1..Len(offers) )
                 => Rejected(r, Response(404, "Offer not found", NullId))
              /\ ( /\ req'[r].kind = "status" => req'[r].val \in STATUSES
                   /\ req'[r].id \in 1..Len(offers) )
                 => req'[r].resp.status \notin {400, 404}
        /\ ( /\ req[r].kind = "status" /\ req[r].pc = "update" /\ Steps(r)
             /\ req[r].given = "" /\ req'[r].resp.status # 500 )
           => offers'[req[r].id].status = "open"
        /\ ( /\ req[r].kind \in {"status", "code", "draft"}
             /\ req[r].resp.status \in {400, 404} )
           => req'[r] = req[r]
    ]_vars

\* a status request without a value reopened the accepted offer, and a
\* create-code request for an offer there is not was answered 404: nothing
\* else changed
C34_Witness ==
    \E a, b \in Reqs :
        /\ req[a].kind = "status" /\ req[a].key = AdminKey /\ req[a].given = ""
        /\ req[a].id = 1 /\ req[a].row.status = "accepted"
        /\ req[a].resp = Redirect /\ offers[1].status = "open"
        /\ req[b].kind = "code" /\ req[b].key = AdminKey /\ req[b].id = 9
        /\ req[b].resp = Response(404, "Offer not found", NullId)
        /\ offers[2] = Stored(2, Shapes[3])
        /\ rules = << >> /\ codes = {} /\ drafts = << >>

----------------------------------------------------------------------------
(* C35 *)

\* the kinds of request the claim is about
Handled == {"offer", "status", "code", "draft"}

\* r has sent its response
Responded(r) == req[r].kind \in Handled /\ req[r].resp.status # 0

\* C35: every submission and every admin status, create-code and draft
\* request is answered in the end, whatever fails on its way, and answered
\* once: the response it sent is never replaced by another, and the handler
\* that sent it runs no further step that could send one.
C35_EveryRequestAnsweredOnce ==
    /\ \A r \in 1..MaxAsked : (req[r].kind \in Handled) ~> Responded(r)
    /\ [][\A r \in 1..MaxAsked :
            Responded(r)
            => /\ req'[r].resp = req[r].resp
               /\ req'[r].pc = "done" /\ req[r].pc = "done"
       ]_vars

\* an acceptance whose provisioning failed at the discount code and whose
\* mail was handed over was redirected, its status written
C35_Witness ==
    \E a \in Reqs :
        /\ req[a].kind = "status" /\ req[a].val = "accepted"
        /\ req[a].calls = 2 /\ req[a].codeInfo = NoInfo
        /\ Len(rules) = 1 /\ codes = {}
        /\ Len(req[a].mails) = 1 /\ req[a].resp = Redirect
====
